---- MODULE Spec2Model ----
(***************************************************************************)
(* Model of the concurrent fetch-and-merge pipeline of koris_api:          *)
(* download_matches_with_boxscores (src/src/koris_api/__init__.py) with    *)
(* the eligibility filter of BasketFiParser                                *)
(* (src/src/koris_api/basketfi_parser.py) and the detail source            *)
(* GeniusSportsAPI.get_match_boxscore (src/src/koris_api/genius_api.py).   *)
(*                                                                         *)
(* Python values: None is the string NoneVal, the empty string is "",      *)
(* a dict key that may be absent (advanced_boxscore,                       *)
(* advanced_boxscore_error) is a set that is empty while the key is        *)
(* absent and holds the value once the key is assigned.  List positions    *)
(* are kept 0-based as in the code; the element at Python position p is    *)
(* element p + 1 of the TLA+ sequence.                                     *)
(***************************************************************************)
EXTENDS Integers, Sequences, FiniteSets, TLC

\* ---------------------------------------------------------------- bounds
MaxMatches == 3      \* longest raw match list the catalog returns
MaxWorkers == 2      \* largest max_workers argument
MaxRaw == 2          \* longest raw list handed to parse_matches alone
MaxSmall == 2        \* longest catalog of the runs with every kind of failure

\* ------------------------------------------------------- value encodings
NoneVal == "<None>"

\* Python truthiness of an Optional[str]
Truthy(x) == x # NoneVal /\ x # ""

\* external identifier carried by the raw match at catalog position i
ExtIds == <<"E1", "E2", "E3", "E4", "E5", "E6">>

\* the score fields (fs_A, fs_B) a raw match can carry: a number as a
\* string, the empty string of an unplayed match, or no value at all
ScoreValues == {"80", "", NoneVal}

\* the two clubs of the league; they meet in every match, taking turns as
\* the home side
HomeTeamId(i) == IF i % 2 = 1 THEN "T1" ELSE "T2"

AwayTeamId(i) == IF i % 2 = 1 THEN "T2" ELSE "T1"

ClubName(team_id) == "Club " \o team_id

\* raw match record at catalog position i
RawMatch(i, sc, ext, st) ==
    [match_id |-> i, match_external_id |-> ext,
     team_A_id |-> HomeTeamId(i), club_A_name |-> ClubName(HomeTeamId(i)),
     team_B_id |-> AwayTeamId(i), club_B_name |-> ClubName(AwayTeamId(i)),
     fs_A |-> sc[1], fs_B |-> sc[2], status |-> st]

\* the external identifier a raw match can carry: none, empty, or its own
ExtChoices(i) == {NoneVal, "", ExtIds[i]}

\* the raw matches the catalog of a whole run can hold at position i:
\* played with an external id (status label agreeing or not), played
\* with no or an empty external id, unplayed, and half-filled scores
MatchKinds(i) ==
    { RawMatch(i, <<"80", "75">>, ExtIds[i], "Played"),
      RawMatch(i, <<"80", "75">>, ExtIds[i], "Fixture"),
      RawMatch(i, <<"80", "75">>, NoneVal,   "Played"),
      RawMatch(i, <<"80", "75">>, "",        "Played"),
      RawMatch(i, <<"", "">>,     ExtIds[i], "Fixture"),
      RawMatch(i, <<"80", NoneVal>>, ExtIds[i], "Played") }

\* catalogs of a whole run
RECURSIVE Catalogs(_)
Catalogs(n) ==
    IF n = 0 THEN {<<>>}
    ELSE {Append(c, m) : c \in Catalogs(n - 1), m \in MatchKinds(n)}

\* the short catalogs: every kind of match at every position
SmallCatalogs == UNION {Catalogs(n) : n \in 0..MaxSmall}

\* the longer catalogs: those in which the status label of every match
\* with an external id agrees with its scores (the label is only copied)
RECURSIVE LabelledCatalogs(_)
LabelledCatalogs(n) ==
    IF n = 0 THEN {<<>>}
    ELSE {Append(c, m) :
             c \in LabelledCatalogs(n - 1),
             m \in {k \in MatchKinds(n) :
                       (k.fs_A = "80" /\ k.fs_B = "75") => k.status = "Played"}}

AllCatalogs == SmallCatalogs \cup LabelledCatalogs(MaxMatches)

\* raw lists for the parser alone: every combination of score values
RECURSIVE RawLists(_)
RawLists(n) ==
    IF n = 0 THEN {<<>>}
    ELSE {Append(c, RawMatch(n, <<a, b>>, ext, "Played")) :
             c \in RawLists(n - 1), a \in ScoreValues, b \in ScoreValues,
             ext \in ExtChoices(n)}

AllRawLists == UNION {RawLists(n) : n \in 0..MaxRaw}

\* ------------------------------------------------ outcomes of one fetch
\* What GeniusSportsAPI.get_match_boxscore does for one call: it returns
\* the parsed document, or requests.get / raise_for_status /
\* parse_boxscore_html raises.  status_code is 0 when the exception has no
\* response; message is str(e).
Outcomes ==
    { [exc |-> "none",            status_code |-> 0,   message |-> NoneVal],
      [exc |-> "HTTPError",       status_code |-> 404, message |-> "404 Client Error"],
      [exc |-> "ValueError",      status_code |-> 0,   message |-> "Match header not found in box score HTML"],
      [exc |-> "ConnectionError", status_code |-> 0,   message |-> "Connection refused"],
      [exc |-> "MemoryError",     status_code |-> 0,   message |-> ""] }
      \* (an exception raised without arguments: str(e) is empty)

\* str(e) of the HTTPError that response.raise_for_status() raises
raise_for_status_message(status_code) ==
    ToString(status_code) \o
        (IF status_code < 500 THEN " Client Error" ELSE " Server Error")

\* every kind of outcome of one call: also a server error, an exception
\* that is a RequestException and a ValueError at once (a malformed URL),
\* and an AttributeError of the parser on an unexpected page
RichOutcomes ==
    Outcomes \cup
    { [exc |-> "HTTPError",      status_code |-> 500, message |-> raise_for_status_message(500)],
      [exc |-> "InvalidURL",     status_code |-> 0,   message |-> "Invalid URL"],
      [exc |-> "AttributeError", status_code |-> 0,   message |-> "NoneType has no attribute find"] }

\* the classes an exception is an instance of
ExcBases(exc) ==
    IF exc = "HTTPError" THEN {"HTTPError", "RequestException", "Exception"}
    ELSE IF exc = "ConnectionError"
    THEN {"ConnectionError", "RequestException", "Exception"}
    ELSE IF exc = "InvalidURL"
    THEN {"InvalidURL", "RequestException", "ValueError", "Exception"}
    ELSE {exc, "Exception"}

\* isinstance(e, cls), the test an except clause makes
IsInstance(exc, cls) == cls \in ExcBases(exc)

\* the outcome recorded for a call that is not over
NoOutcome == [exc |-> "<pending>", status_code |-> 0, message |-> NoneVal]

\* the document get_match_boxscore returns for match_id
get_match_boxscore(match_id) == [match_info |-> match_id, teams |-> 2]

\* requests.Response.__bool__ is Response.ok: false for 4xx and 5xx
ResponseTruthy(status_code) == status_code # 0 /\ status_code < 400

VARIABLES
    pc,                        \* position of the driver in the function
    catalog,                   \* raw matches BasketFiAPI.get_matches returns
    include_advanced,          \* argument
    max_workers,               \* argument
    total_matches,             \* len(matches)
    processed_matches,         \* the list that is written out
    matches_to_fetch_advanced, \* the fetch tasks
    futures,                   \* per task: state of its future and its result
    matches_with_advanced,     \* counter
    matches_failed,            \* counter
    calls,                     \* per task: invocations of get_match_boxscore
    consumed,                  \* per task: times the merge loop took its result
    writes,                    \* number of json.dump calls
    output                     \* the document written by json.dump

\* state of the other download functions
VARIABLES
    fn,                        \* the function the run executes
    teams_with_details,        \* the team records a comprehensive run collects
    teams_dict,                \* the teams extract_teams_from_matches collects
    args,                      \* main: the parsed command line
    printed,                   \* main: the error lines it has printed
    exit_code,                 \* main: exit status of the process
    action_exit,               \* main: how the download function was left
    seasons,                   \* league functions: the seasons of the category
    season_no,                 \* league functions: position of the season loop
    all_matches,               \* download_league_all_seasons: accumulated list
    seasons_processed,         \* league functions: the seasons that completed
    total_matches_found,       \* league functions: counter
    total_played_matches,      \* league functions: counter
    total_advanced_stats,      \* league functions: counter
    total_failed,              \* league functions: counter
    team_answers,              \* what upstream answers to the team lookups
    game_ids,                  \* download_old_games_bulk: the requested ids
    output_file,               \* download_old_games_bulk: argument
    games_data,                \* download_old_games_bulk: the fetched games
    games_successful,          \* download_old_games_bulk: counter
    games_failed,              \* download_old_games_bulk: counter
    requests,                  \* get_matches: the HTTP requests it has sent
    api_args,                  \* get_matches: its arguments
    api_result                 \* get_matches: how the call ended

teams_vars == <<teams_dict>>

cli_vars == <<args, printed, exit_code, action_exit>>

league_vars == <<seasons, season_no, all_matches, seasons_processed,
                 total_matches_found, total_played_matches,
                 total_advanced_stats, total_failed, team_answers>>

bulk_vars == <<game_ids, output_file, games_data, games_successful,
               games_failed>>

api_vars == <<requests, api_args, api_result>>

\* the variables only the functions further down use
later == <<teams_vars, cli_vars, league_vars, bulk_vars, api_vars>>

aux == <<fn, teams_with_details, later>>

vars == <<pc, catalog, include_advanced, max_workers, total_matches,
          processed_matches, matches_to_fetch_advanced, futures,
          matches_with_advanced, matches_failed, calls, consumed, writes,
          output, aux>>

\* the variables the pipeline of one match list does not use
TeamsIdle == teams_dict = <<>>

CliIdle ==
    /\ args = <<>>
    /\ printed = <<>>
    /\ exit_code = NoneVal
    /\ action_exit = NoOutcome

LeagueIdle ==
    /\ seasons = <<>>
    /\ season_no = 0
    /\ all_matches = <<>>
    /\ seasons_processed = <<>>
    /\ total_matches_found = 0
    /\ total_played_matches = 0
    /\ total_advanced_stats = 0
    /\ total_failed = 0
    /\ team_answers = <<>>

BulkIdle ==
    /\ game_ids = <<>>
    /\ output_file = NoneVal
    /\ games_data = <<>>
    /\ games_successful = 0
    /\ games_failed = 0

ApiIdle ==
    /\ requests = <<>>
    /\ api_args = <<>>
    /\ api_result = NoOutcome

LaterIdle == TeamsIdle /\ CliIdle /\ LeagueIdle /\ BulkIdle /\ ApiIdle

\* the variables of the pipeline while another function is looked at
PipelineIdle ==
    /\ catalog = <<>>
    /\ include_advanced = FALSE
    /\ max_workers = 1
    /\ total_matches = 0
    /\ processed_matches = <<>>
    /\ matches_to_fetch_advanced = <<>>
    /\ futures = <<>>
    /\ matches_with_advanced = 0
    /\ matches_failed = 0
    /\ calls = <<>>
    /\ consumed = <<>>
    /\ writes = 0
    /\ output = <<>>
    /\ teams_with_details = <<>>

pipeline == <<catalog, include_advanced, max_workers, total_matches,
              processed_matches, matches_to_fetch_advanced, futures,
              matches_with_advanced, matches_failed, calls, consumed, writes,
              output, teams_with_details>>

AuxIdle ==
    /\ fn = "download_matches_with_boxscores"
    /\ teams_with_details = <<>>
    /\ LaterIdle

\* ------------------------------------------------------ BasketFiParser
is_match_played_or(match) ==
    LET home_score == match.fs_A
        away_score == match.fs_B
    IN  (home_score # NoneVal /\ home_score # "")
        \/ (away_score # NoneVal /\ away_score # "")

is_match_played(match) ==
    LET home_score == match.fs_A
        away_score == match.fs_B
    IN  /\ home_score # NoneVal
        /\ away_score # NoneVal
        /\ home_score # ""
        /\ away_score # ""

parse_match(match) ==
    [match_id |-> match.match_id,
     match_external_id |-> match.match_external_id,
     home_team |-> match.club_A_name,
     home_team_id |-> match.team_A_id,
     away_team |-> match.club_B_name,
     away_team_id |-> match.team_B_id,
     home_score |-> match.fs_A,
     away_score |-> match.fs_B,
     status |-> match.status,
     advanced_boxscore |-> {},
     advanced_boxscore_error |-> {}]

\* a parse_matches that does not look at the scores
parse_matches_keep_all(matches, only_played) ==
    [i \in 1..Len(matches) |-> parse_match(matches[i])]

parse_matches(matches, only_played) ==
    LET kept == SelectSeq(matches,
                          LAMBDA m : ~(only_played /\ ~is_match_played(m)))
    IN  [i \in 1..Len(kept) |-> parse_match(kept[i])]

\* ------------------------------------ download_matches_with_boxscores
\* the position recorded in the task built at enumerate position idx
TaskIndex(pm, idx) == Len(pm) - 1

RECURSIVE BuildTasks(_, _)
BuildTasks(pm, idx) ==
    IF idx >= Len(pm) THEN <<>>
    ELSE LET external_id == pm[idx + 1].match_external_id
         IN  (IF Truthy(external_id)
              THEN <<[index |-> TaskIndex(pm, idx),
                      external_id |-> external_id]>>
              ELSE <<>>) \o BuildTasks(pm, idx + 1)

\* a result is the tuple fetch_boxscore returns; raised tells that the call
\* left fetch_boxscore by an exception instead, which future.result() re-raises
NoResult == [index |-> -1, boxscore |-> {}, error |-> NoneVal,
             error_type |-> NoneVal, raised |-> FALSE]

\* fetch_boxscore without the final "except Exception" clause
fetch_boxscore_no_catch_all(match_info, o) ==
    IF o.exc = "none"
    THEN [index |-> match_info.index,
          boxscore |-> {get_match_boxscore(match_info.external_id)},
          error |-> NoneVal, error_type |-> NoneVal, raised |-> FALSE]
    ELSE IF IsInstance(o.exc, "HTTPError")
    THEN [index |-> match_info.index, boxscore |-> {},
          error |-> o.message,
          error_type |-> IF ResponseTruthy(o.status_code)
                         THEN "HTTP " \o ToString(o.status_code)
                         ELSE "HTTP Error",
          raised |-> FALSE]
    ELSE IF IsInstance(o.exc, "ValueError")
    THEN [index |-> match_info.index, boxscore |-> {},
          error |-> o.message, error_type |-> "Parse Error",
          raised |-> FALSE]
    ELSE [NoResult EXCEPT !.raised = TRUE]

\* fetch_boxscore keeping only the reason phrase of an HTTPError
fetch_boxscore_http_reason(match_info, o) ==
    IF o.exc = "none"
    THEN [index |-> match_info.index,
          boxscore |-> {get_match_boxscore(match_info.external_id)},
          error |-> NoneVal, error_type |-> NoneVal, raised |-> FALSE]
    ELSE IF IsInstance(o.exc, "HTTPError")
    THEN [index |-> match_info.index, boxscore |-> {},
          error |-> "Error",
          error_type |-> IF ResponseTruthy(o.status_code)
                         THEN "HTTP " \o ToString(o.status_code)
                         ELSE "HTTP Error",
          raised |-> FALSE]
    ELSE IF IsInstance(o.exc, "ValueError")
    THEN [index |-> match_info.index, boxscore |-> {},
          error |-> o.message, error_type |-> "Parse Error",
          raised |-> FALSE]
    ELSE [index |-> match_info.index, boxscore |-> {},
          error |-> o.message, error_type |-> o.exc, raised |-> FALSE]

\* fetch_boxscore without the "except ValueError" clause
fetch_boxscore_no_value_error(match_info, o) ==
    IF o.exc = "none"
    THEN [index |-> match_info.index,
          boxscore |-> {get_match_boxscore(match_info.external_id)},
          error |-> NoneVal, error_type |-> NoneVal, raised |-> FALSE]
    ELSE IF IsInstance(o.exc, "HTTPError")
    THEN [index |-> match_info.index, boxscore |-> {},
          error |-> o.message,
          error_type |-> IF ResponseTruthy(o.status_code)
                         THEN "HTTP " \o ToString(o.status_code)
                         ELSE "HTTP Error",
          raised |-> FALSE]
    ELSE [index |-> match_info.index, boxscore |-> {},
          error |-> o.message, error_type |-> o.exc, raised |-> FALSE]

\* fetch_boxscore: the result tuple for one outcome of the call
fetch_boxscore(match_info, o) ==
    IF o.exc = "none"
    THEN [index |-> match_info.index,
          boxscore |-> {get_match_boxscore(match_info.external_id)},
          error |-> NoneVal, error_type |-> NoneVal, raised |-> FALSE]
    ELSE IF IsInstance(o.exc, "HTTPError")
    THEN [index |-> match_info.index, boxscore |-> {},
          error |-> o.message,
          error_type |-> IF ResponseTruthy(o.status_code)
                         THEN "HTTP " \o ToString(o.status_code)
                         ELSE "HTTP Error",
          raised |-> FALSE]
    ELSE IF IsInstance(o.exc, "ValueError")
    THEN [index |-> match_info.index, boxscore |-> {},
          error |-> o.message, error_type |-> "Parse Error",
          raised |-> FALSE]
    ELSE [index |-> match_info.index, boxscore |-> {},
          error |-> o.message, error_type |-> o.exc, raised |-> FALSE]

Tasks == 1..Len(matches_to_fetch_advanced)

Running == {t \in Tasks : futures[t].state = "running"}

Init ==
    /\ pc = "start"
    /\ catalog \in AllCatalogs
    /\ include_advanced \in BOOLEAN
    /\ max_workers \in 1..MaxWorkers
    /\ total_matches = 0
    /\ processed_matches = <<>>
    /\ matches_to_fetch_advanced = <<>>
    /\ futures = <<>>
    /\ matches_with_advanced = 0
    /\ matches_failed = 0
    /\ calls = <<>>
    /\ consumed = <<>>
    /\ writes = 0
    /\ output = <<>>
    /\ AuxIdle

\* BasketFiAPI.get_matches raises: the exception leaves the function
GetMatchesRaises ==
    /\ pc = "start"
    /\ pc' = "raised"
    /\ UNCHANGED <<catalog, include_advanced, max_workers, total_matches,
                   processed_matches, matches_to_fetch_advanced, futures,
                   matches_with_advanced, matches_failed, calls, consumed,
                   writes, output>>
    /\ UNCHANGED aux

\* a preparation that builds and submits the tasks whatever include_advanced
Prepare_always_fetch ==
    /\ pc = "start"
    /\ IF catalog = <<>>
       THEN /\ pc' = "returned"
            /\ UNCHANGED <<total_matches, processed_matches,
                           matches_to_fetch_advanced, futures, calls, consumed>>
       ELSE LET pm == parse_matches(catalog, TRUE)
                tasks == BuildTasks(pm, 0)
            IN  /\ total_matches' = Len(catalog)
                /\ processed_matches' = pm
                /\ matches_to_fetch_advanced' = tasks
                /\ futures' = [t \in 1..Len(tasks) |->
                                 [state |-> "pending", outcome |-> NoOutcome,
                                  result |-> NoResult]]
                /\ calls' = [t \in 1..Len(tasks) |-> 0]
                /\ consumed' = [t \in 1..Len(tasks) |-> 0]
                /\ pc' = IF tasks # <<>> THEN "pool" ELSE "save"
    /\ UNCHANGED <<catalog, include_advanced, max_workers,
                   matches_with_advanced, matches_failed, writes, output>>
    /\ UNCHANGED aux

\* lines 105-172: fetch the catalog, filter, build the tasks, submit them
Prepare ==
    /\ pc = "start"
    /\ IF catalog = <<>>
       THEN /\ pc' = "returned"
            /\ UNCHANGED <<total_matches, processed_matches,
                           matches_to_fetch_advanced, futures, calls, consumed>>
       ELSE LET pm == parse_matches(catalog, TRUE)
                tasks == IF include_advanced THEN BuildTasks(pm, 0) ELSE <<>>
            IN  /\ total_matches' = Len(catalog)
                /\ processed_matches' = pm
                /\ matches_to_fetch_advanced' = tasks
                /\ futures' = [t \in 1..Len(tasks) |->
                                 [state |-> "pending", outcome |-> NoOutcome,
                                  result |-> NoResult]]
                /\ calls' = [t \in 1..Len(tasks) |-> 0]
                /\ consumed' = [t \in 1..Len(tasks) |-> 0]
                /\ pc' = IF include_advanced /\ tasks # <<>>
                         THEN "pool" ELSE "save"
    /\ UNCHANGED <<catalog, include_advanced, max_workers,
                   matches_with_advanced, matches_failed, writes, output>>
    /\ UNCHANGED aux

\* a pool that starts a thread for every queued task
WorkerStart_unbounded(t) ==
    /\ pc = "pool"
    /\ futures[t].state = "pending"
    /\ \A u \in Tasks : u < t => futures[u].state # "pending"
    /\ futures' = [futures EXCEPT ![t].state = "running"]
    /\ calls' = [calls EXCEPT ![t] = @ + 1]
    /\ UNCHANGED <<pc, catalog, include_advanced, max_workers, total_matches,
                   processed_matches, matches_to_fetch_advanced,
                   matches_with_advanced, matches_failed, consumed, writes,
                   output>>
    /\ UNCHANGED aux

\* a free worker of the pool takes the oldest queued task and calls
\* GeniusSportsAPI.get_match_boxscore
WorkerStart(t) ==
    /\ pc = "pool"
    /\ futures[t].state = "pending"
    /\ \A u \in Tasks : u < t => futures[u].state # "pending"
    /\ Cardinality(Running) < max_workers
    /\ futures' = [futures EXCEPT ![t].state = "running"]
    /\ calls' = [calls EXCEPT ![t] = @ + 1]
    /\ UNCHANGED <<pc, catalog, include_advanced, max_workers, total_matches,
                   processed_matches, matches_to_fetch_advanced,
                   matches_with_advanced, matches_failed, consumed, writes,
                   output>>
    /\ UNCHANGED aux

\* a worker that puts a failed task back on the queue once
WorkerFinish_retry(t, o) ==
    /\ pc = "pool"
    /\ futures[t].state = "running"
    /\ futures' = [futures EXCEPT
                     ![t] = IF o.exc # "none" /\ calls[t] < 2
                            THEN [state |-> "pending", outcome |-> NoOutcome,
                                  result |-> NoResult]
                            ELSE [state |-> "finished", outcome |-> o,
                                  result |-> fetch_boxscore(
                                      matches_to_fetch_advanced[t], o)]]
    /\ UNCHANGED <<pc, catalog, include_advanced, max_workers, total_matches,
                   processed_matches, matches_to_fetch_advanced,
                   matches_with_advanced, matches_failed, calls, consumed,
                   writes, output>>
    /\ UNCHANGED aux

\* a worker that counts its own failure in the shared counter
WorkerFinish_counts(t, o) ==
    /\ pc = "pool"
    /\ futures[t].state = "running"
    /\ futures' = [futures EXCEPT
                     ![t] = [state |-> "finished", outcome |-> o,
                             result |-> fetch_boxscore(
                                            matches_to_fetch_advanced[t], o)]]
    /\ matches_failed' = IF o.exc = "none" THEN matches_failed
                         ELSE matches_failed + 1
    /\ UNCHANGED <<pc, catalog, include_advanced, max_workers, total_matches,
                   processed_matches, matches_to_fetch_advanced,
                   matches_with_advanced, calls, consumed,
                   writes, output>>
    /\ UNCHANGED aux

\* the call returns or raises; fetch_boxscore returns its result tuple
WorkerFinish(t, o) ==
    /\ pc = "pool"
    /\ futures[t].state = "running"
    /\ futures' = [futures EXCEPT
                     ![t] = [state |-> "finished", outcome |-> o,
                             result |-> fetch_boxscore(
                                            matches_to_fetch_advanced[t], o)]]
    /\ UNCHANGED <<pc, catalog, include_advanced, max_workers, total_matches,
                   processed_matches, matches_to_fetch_advanced,
                   matches_with_advanced, matches_failed, calls, consumed,
                   writes, output>>
    /\ UNCHANGED aux

\* a merge that appends the enriched record in completion order
MergeMatches_append(pm, res) ==
    IF res.boxscore # {}
    THEN Append(pm, [pm[res.index + 1] EXCEPT
                        !.advanced_boxscore = res.boxscore])
    ELSE pm

\* lines 184-194: the effect of one result on the list
MergeMatches(pm, res) ==
    IF res.boxscore # {}
    THEN [pm EXCEPT ![res.index + 1].advanced_boxscore = res.boxscore]
    ELSE IF Truthy(res.error)
    THEN [pm EXCEPT ![res.index + 1].advanced_boxscore_error =
              {[error_type |-> IF Truthy(res.error_type)
                               THEN res.error_type ELSE "Unknown",
                error_message |-> res.error]}]
    ELSE pm

\* lines 184-186: the success counter after one result
CountAdvanced(res, n) == IF res.boxscore # {} THEN n + 1 ELSE n

\* a failure counter that only counts failures that carry a message
CountFailed_if_error(res, n) ==
    IF res.boxscore # {} THEN n
    ELSE IF Truthy(res.error) THEN n + 1 ELSE n

\* lines 187-188: the failure counter after one result
CountFailed(res, n) == IF res.boxscore # {} THEN n ELSE n + 1

\* a loop that goes on to the write after the first result
Collect_early_save(t) ==
    /\ pc = "pool"
    /\ futures[t].state = "finished"
    /\ LET res == futures[t].result
       IN  /\ processed_matches' = MergeMatches(processed_matches, res)
           /\ matches_with_advanced' =
                  CountAdvanced(res, matches_with_advanced)
           /\ matches_failed' = CountFailed(res, matches_failed)
           /\ pc' = "save"
    /\ futures' = [futures EXCEPT ![t].state = "consumed"]
    /\ consumed' = [consumed EXCEPT ![t] = @ + 1]
    /\ UNCHANGED <<catalog, include_advanced, max_workers, total_matches,
                   matches_to_fetch_advanced, calls, writes, output>>
    /\ UNCHANGED aux

\* a loop that stops at the first failed result and gives up the batch
Collect_abort_on_failure(t) ==
    /\ pc = "pool"
    /\ futures[t].state = "finished"
    /\ LET res == futures[t].result
       IN  IF res.boxscore = {}
           THEN /\ pc' = "aborted"
                /\ UNCHANGED <<processed_matches, matches_with_advanced,
                               matches_failed>>
           ELSE /\ processed_matches' = MergeMatches(processed_matches, res)
                /\ matches_with_advanced' =
                       CountAdvanced(res, matches_with_advanced)
                /\ matches_failed' = CountFailed(res, matches_failed)
                /\ pc' = IF \A u \in Tasks \ {t} :
                                futures[u].state = "consumed"
                         THEN "save" ELSE "pool"
    /\ futures' = [futures EXCEPT ![t].state = "consumed"]
    /\ consumed' = [consumed EXCEPT ![t] = @ + 1]
    /\ UNCHANGED <<catalog, include_advanced, max_workers, total_matches,
                   matches_to_fetch_advanced, calls, writes, output>>
    /\ UNCHANGED aux

\* one iteration of the as_completed loop, lines 180-215; future.result()
\* re-raises an exception that left fetch_boxscore
Collect(t) ==
    /\ pc = "pool"
    /\ futures[t].state = "finished"
    /\ LET res == futures[t].result
       IN  IF res.raised
           THEN /\ pc' = "raised"
                /\ UNCHANGED <<processed_matches, matches_with_advanced,
                               matches_failed>>
           ELSE /\ processed_matches' = MergeMatches(processed_matches, res)
                /\ matches_with_advanced' =
                       CountAdvanced(res, matches_with_advanced)
                /\ matches_failed' = CountFailed(res, matches_failed)
                /\ pc' = IF \A u \in Tasks \ {t} :
                                futures[u].state = "consumed"
                         THEN "save" ELSE "pool"
    /\ futures' = [futures EXCEPT ![t].state = "consumed"]
    /\ consumed' = [consumed EXCEPT ![t] = @ + 1]
    /\ UNCHANGED <<catalog, include_advanced, max_workers, total_matches,
                   matches_to_fetch_advanced, calls, writes, output>>
    /\ UNCHANGED aux

\* lines 217-235: build the aggregate result and write it
Save ==
    /\ pc = "save"
    /\ output' = <<[total_matches_in_season |-> total_matches,
                    played_matches_saved |-> Len(processed_matches),
                    matches_with_advanced_stats |-> matches_with_advanced,
                    matches_failed |-> matches_failed,
                    include_advanced_stats |-> include_advanced,
                    matches |-> processed_matches]>>
    /\ writes' = writes + 1
    /\ pc' = "done"
    /\ UNCHANGED <<catalog, include_advanced, max_workers, total_matches,
                   processed_matches, matches_to_fetch_advanced, futures,
                   matches_with_advanced, matches_failed, calls, consumed>>
    /\ UNCHANGED aux

Next ==
    \/ GetMatchesRaises
    \/ Prepare
    \/ \E t \in Tasks : WorkerStart(t)
    \/ \E t \in Tasks : \E o \in Outcomes : WorkerFinish(t, o)
    \/ \E t \in Tasks : Collect(t)
    \/ Save

Spec == Init /\ [][Next]_vars

\* --------------- runs over short catalogs with every kind of failure
InitSmall ==
    /\ pc = "start"
    /\ catalog \in SmallCatalogs
    /\ include_advanced \in BOOLEAN
    /\ max_workers \in 1..MaxWorkers
    /\ total_matches = 0
    /\ processed_matches = <<>>
    /\ matches_to_fetch_advanced = <<>>
    /\ futures = <<>>
    /\ matches_with_advanced = 0
    /\ matches_failed = 0
    /\ calls = <<>>
    /\ consumed = <<>>
    /\ writes = 0
    /\ output = <<>>
    /\ AuxIdle

NextRich ==
    \/ GetMatchesRaises
    \/ Prepare
    \/ \E t \in Tasks : WorkerStart(t)
    \/ \E t \in Tasks : \E o \in RichOutcomes : WorkerFinish(t, o)
    \/ \E t \in Tasks : Collect(t)
    \/ Save

SpecRich == InitSmall /\ [][NextRich]_vars

\* the pool runs its workers, every call returns or raises, and the driver
\* thread keeps running
Fairness ==
    /\ WF_vars(Prepare)
    /\ WF_vars(\E t \in Tasks : WorkerStart(t))
    /\ WF_vars(\E t \in Tasks : \E o \in Outcomes : WorkerFinish(t, o))
    /\ WF_vars(\E t \in Tasks : Collect(t))
    /\ WF_vars(Save)

SpecLive == InitSmall /\ [][Next]_vars /\ Fairness

\* ------------------------- BasketFiParser.parse_matches on its own
InitParse ==
    /\ pc = "parse_start"
    /\ catalog \in AllRawLists
    /\ include_advanced = FALSE
    /\ max_workers = 1
    /\ total_matches = 0
    /\ processed_matches = <<>>
    /\ matches_to_fetch_advanced = <<>>
    /\ futures = <<>>
    /\ matches_with_advanced = 0
    /\ matches_failed = 0
    /\ calls = <<>>
    /\ consumed = <<>>
    /\ writes = 0
    /\ output = <<>>
    /\ AuxIdle

ParseMatches(only_played) ==
    /\ pc = "parse_start"
    /\ processed_matches' = parse_matches(catalog, only_played)
    /\ pc' = IF only_played THEN "parsed_played" ELSE "parsed_all"
    /\ UNCHANGED <<catalog, include_advanced, max_workers, total_matches,
                   matches_to_fetch_advanced, futures, matches_with_advanced,
                   matches_failed, calls, consumed, writes, output>>
    /\ UNCHANGED aux

NextParse == \E only_played \in BOOLEAN : ParseMatches(only_played)

SpecParse == InitParse /\ [][NextParse]_vars

\* ---------- download_season_comprehensive and download_team_season
\* the functions that work on the match list of one season
SingleSeasonFunctions ==
    {"download_matches_with_boxscores", "download_season_comprehensive",
     "download_team_season"}

SeasonFunctions ==
    {"download_season_comprehensive", "download_team_season"}

\* BasketFiParser.extract_teams_from_matches: one step for one side of a
\* match; teams is the dict in insertion order
AddTeam(teams, id, name) ==
    IF Truthy(id) /\ Truthy(name)
       /\ ~\E k \in 1..Len(teams) : teams[k].team_id = id
    THEN Append(teams, [team_id |-> id, team_name |-> name,
                        detail |-> {}, error |-> {}])
    ELSE teams

RECURSIVE TeamsLoop(_, _, _)
TeamsLoop(matches, k, teams) ==
    IF k > Len(matches) THEN teams
    ELSE LET match == matches[k]
             home == AddTeam(teams, match.home_team_id, match.home_team)
         IN  TeamsLoop(matches, k + 1,
                       AddTeam(home, match.away_team_id, match.away_team))

\* a variant that lists a team every time it plays
extract_teams_from_matches_every_time(matches) ==
    [k \in 1..(2 * Len(matches)) |->
        LET match == matches[(k + 1) \div 2]
        IN  IF k % 2 = 1
            THEN [team_id |-> match.home_team_id,
                  team_name |-> match.home_team,
                  detail |-> {}, error |-> {}]
            ELSE [team_id |-> match.away_team_id,
                  team_name |-> match.away_team,
                  detail |-> {}, error |-> {}]]

extract_teams_from_matches(matches) == TeamsLoop(matches, 1, <<>>)

\* what the upstream source does with a team lookup: it answers with a
\* document that has a "team" entry, with a document that has none, or the
\* request fails
TeamAnswers == {"team", "no team", "fails"}

\* the parameters BasketFiAPI.get_team declares besides cls
get_team_parameters == {"team_id"}

\* BasketFiAPI.get_team called with the named arguments: the call raises
\* TypeError when an argument is not a parameter; otherwise the request is
\* sent and raise_for_status raises when it fails
get_team(arguments, answer) ==
    IF ~(arguments \subseteq get_team_parameters)
    THEN [exc |-> "TypeError",
          message |-> "get_team() got an unexpected keyword argument"]
    ELSE IF answer = "fails"
    THEN [exc |-> "HTTPError", message |-> raise_for_status_message(500)]
    ELSE [exc |-> "none", message |-> NoneVal]

\* one iteration of the team loop: the entry appended for team_info
TeamEntry(team_info, arguments, answer) ==
    LET r == get_team(arguments, answer)
    IN  IF r.exc # "none"
        THEN [team_info EXCEPT !.error = {r.message}]
        ELSE IF answer = "team"
        THEN [team_info EXCEPT !.detail = {"players", "officials"}]
        ELSE team_info

\* the team loop over teams_dict with the answers of the upstream source
TeamLoop(teams_list, arguments, answers) ==
    [k \in 1..Len(teams_list) |->
        TeamEntry(teams_list[k], arguments, answers[teams_list[k].team_id])]

TeamIdsOf(teams_list) == {teams_list[k].team_id : k \in 1..Len(teams_list)}

\* a task that records the position of the last match of the list
SeasonTask_last(pm, idx) ==
    [index |-> Len(pm) - 1, external_id |-> pm[idx + 1].match_external_id]

\* the task built for the match at enumerate position idx (lines 1001-1009,
\* 1337-1345, 1645-1655)
SeasonTask(pm, idx) ==
    [index |-> idx, external_id |-> pm[idx + 1].match_external_id]

\* the tasks of lines 997-1010, 1333-1346 and 1641-1656: one for every
\* match with an external id
RECURSIVE SeasonTasks(_, _)
SeasonTasks(pm, idx) ==
    IF idx >= Len(pm) THEN <<>>
    ELSE (IF Truthy(pm[idx + 1].match_external_id)
          THEN <<SeasonTask(pm, idx)>>
          ELSE <<>>) \o SeasonTasks(pm, idx + 1)

\* variables no step of a single-season function before the pool changes
SeasonInputs == <<catalog, include_advanced, max_workers, fn, later>>

\* the run ends before the match list is asked for: the category or season
\* is not valid (download_season_comprehensive returns), or the team lookup
\* raises (download_team_season)
SeasonPrologueStops ==
    /\ fn \in SeasonFunctions
    /\ pc = "start"
    /\ pc' = IF fn = "download_season_comprehensive"
             THEN "returned" ELSE "team raised"
    /\ UNCHANGED <<SeasonInputs, total_matches, processed_matches,
                   matches_to_fetch_advanced, futures, matches_with_advanced,
                   matches_failed, calls, consumed, writes, output,
                   teams_with_details>>

\* a run that takes a failed match list for an empty one
SeasonGetMatchesRaises_contained ==
    /\ fn \in SeasonFunctions
    /\ pc = "start"
    /\ pc' = "save"
    /\ UNCHANGED <<SeasonInputs, total_matches, processed_matches,
                   matches_to_fetch_advanced, futures, matches_with_advanced,
                   matches_failed, calls, consumed, writes, output,
                   teams_with_details>>

\* BasketFiAPI.get_matches raises (lines 973-975, 1313): nothing catches it
SeasonGetMatchesRaises ==
    /\ fn \in SeasonFunctions
    /\ pc = "start"
    /\ pc' = "raised"
    /\ UNCHANGED <<SeasonInputs, total_matches, processed_matches,
                   matches_to_fetch_advanced, futures, matches_with_advanced,
                   matches_failed, calls, consumed, writes, output,
                   teams_with_details>>

\* lines 973-1030 and 1313-1366: the match list, the filter, the tasks and
\* their submission; an empty match list leaves "matches" empty
SeasonPrepare ==
    /\ fn \in SeasonFunctions
    /\ pc = "start"
    /\ LET pm == IF catalog = <<>> THEN <<>>
                 ELSE parse_matches(catalog, TRUE)
           tasks == IF include_advanced THEN SeasonTasks(pm, 0) ELSE <<>>
       IN  /\ total_matches' = Len(catalog)
           /\ processed_matches' = pm
           /\ matches_to_fetch_advanced' = tasks
           /\ futures' = [t \in 1..Len(tasks) |->
                            [state |-> "pending", outcome |-> NoOutcome,
                             result |-> NoResult]]
           /\ calls' = [t \in 1..Len(tasks) |-> 0]
           /\ consumed' = [t \in 1..Len(tasks) |-> 0]
           /\ pc' = IF include_advanced /\ tasks # <<>>
                    THEN "pool" ELSE "save"
    /\ UNCHANGED <<SeasonInputs, matches_with_advanced, matches_failed,
                   writes, output, teams_with_details>>

\* lines 1093-1147 and 1422-1458: the metadata, the team records
\* (download_season_comprehensive looks up every team of the matches) and
\* the write
SeasonSave ==
    /\ fn \in SeasonFunctions
    /\ pc = "save"
    /\ \E answers \in [{"T1", "T2"} -> TeamAnswers] :
           LET teams_list == extract_teams_from_matches(processed_matches)
               teams == IF fn = "download_season_comprehensive"
                        THEN TeamLoop(teams_list, {"team_id"}, answers)
                        ELSE <<>>
           IN  /\ teams_with_details' = teams
               /\ output' =
                      <<[total_matches_in_season |-> total_matches,
                         played_matches_saved |-> Len(processed_matches),
                         matches_with_advanced_stats |-> matches_with_advanced,
                         matches_failed |-> matches_failed,
                         include_advanced_stats |-> include_advanced,
                         matches |-> processed_matches,
                         teams |-> teams]>>
    /\ writes' = writes + 1
    /\ pc' = "done"
    /\ UNCHANGED <<SeasonInputs, total_matches, processed_matches,
                   matches_to_fetch_advanced, futures, matches_with_advanced,
                   matches_failed, calls, consumed>>

\* ------ download_league_all_seasons and download_league_comprehensive
MaxSeasons == 2          \* most seasons the category lists
MaxLeagueMatches == 2    \* most matches the seasons hold together

LeagueFunctions ==
    {"download_league_all_seasons", "download_league_comprehensive"}

\* the raw matches season s can hold at position i: played with an external
\* id, played without one, not played
SeasonMatchKinds(s, i) ==
    { RawMatch(10 * s + i, <<"80", "75">>, "E" \o ToString(10 * s + i), "Played"),
      RawMatch(10 * s + i, <<"80", "75">>, NoneVal, "Played"),
      RawMatch(10 * s + i, <<"", "">>, "E" \o ToString(10 * s + i), "Fixture") }

RECURSIVE SeasonMatchLists(_, _)
SeasonMatchLists(s, n) ==
    IF n = 0 THEN {<<>>}
    ELSE {Append(c, m) : c \in SeasonMatchLists(s, n - 1),
                         m \in SeasonMatchKinds(s, n)}

\* an entry of category["seasons"] together with what the match list
\* request of that season does: it returns matches, it raises, or it
\* returns a list with an entry that parse_matches cannot read
SeasonRecord(s, matches, failure) ==
    [season_id |-> "S" \o ToString(s),
     season_name |-> "Season " \o ToString(s),
     competition_id |-> "huki" \o ToString(s),
     matches |-> matches, failure |-> failure]

\* the records of season s with n readable matches; the seasons whose
\* request or parse raises are among those with none
SeasonRecords(s, n) ==
    {SeasonRecord(s, m, "none") : m \in SeasonMatchLists(s, n)}
    \cup (IF n = 0
          THEN {SeasonRecord(s, <<>>, "get_matches"),
                SeasonRecord(s, <<[malformed |-> TRUE]>>, "parse_matches")}
          ELSE {})

\* the season lists of length n that hold at most m readable matches
RECURSIVE SeasonLists(_, _)
SeasonLists(n, m) ==
    IF n = 0 THEN {<<>>}
    ELSE UNION {{Append(c, r) : c \in SeasonLists(n - 1, m - k),
                                r \in SeasonRecords(n, k)} : k \in 0..m}

\* the outcomes of a box score fetch looked at in the league functions
LeagueOutcomes == {o \in Outcomes : o.exc \in {"none", "HTTPError"}}

\* {**match_data, "season_id": season_data_id}
WithSeasonId(match_data, season_data_id) ==
    [f \in DOMAIN match_data \cup {"season_id"} |->
        IF f = "season_id" THEN season_data_id ELSE match_data[f]]

\* a task that records the position of its match within the season
AllSeasonsTask_in_season(pm, idx, all) ==
    [index |-> idx, external_id |-> pm[idx + 1].match_external_id]

\* the task of lines 342-349: the position is the length of all_matches
\* before the season is appended plus the enumerate position
AllSeasonsTask(pm, idx, all) ==
    [index |-> Len(all) + idx, external_id |-> pm[idx + 1].match_external_id]

\* the tasks of lines 338-350: one for every match with an external id
RECURSIVE AllSeasonsTasks(_, _, _)
AllSeasonsTasks(pm, idx, all) ==
    IF idx >= Len(pm) THEN <<>>
    ELSE (IF Truthy(pm[idx + 1].match_external_id)
          THEN <<AllSeasonsTask(pm, idx, all)>>
          ELSE <<>>) \o AllSeasonsTasks(pm, idx + 1, all)

\* what the league functions leave alone in every step
LeagueInputs ==
    <<catalog, include_advanced, max_workers, fn, seasons, total_matches,
      matches_with_advanced, matches_failed, teams_with_details,
      teams_vars, cli_vars, bulk_vars, api_vars>>

\* the run ends before the season loop: the category has no season list
\* or an empty one (both functions return), or the category request raises
\* (download_league_comprehensive returns at lines 1536-1550,
\* download_league_all_seasons lets the exception of line 282 through)
LeaguePrologueStops ==
    /\ fn \in LeagueFunctions
    /\ pc = "start"
    /\ pc' \in IF fn = "download_league_all_seasons"
               THEN {"returned", "raised"} ELSE {"returned"}
    /\ UNCHANGED <<LeagueInputs, season_no, all_matches, seasons_processed,
                   total_matches_found, total_played_matches,
                   total_advanced_stats, total_failed, team_answers,
                   processed_matches, matches_to_fetch_advanced, futures,
                   calls, consumed, writes, output>>

\* lines 282-306 and 1537-1606: the category lists seasons; the loop starts
LeagueBegin ==
    /\ fn \in LeagueFunctions
    /\ pc = "start"
    /\ seasons # <<>>
    /\ pc' = "league_loop"
    /\ season_no' = 1
    /\ UNCHANGED <<LeagueInputs, all_matches, seasons_processed,
                   total_matches_found, total_played_matches,
                   total_advanced_stats, total_failed, team_answers,
                   processed_matches, matches_to_fetch_advanced, futures,
                   calls, consumed, writes, output>>

\* a loop that gives up at the first season that raises
LeagueSeasonFails_stops ==
    /\ fn \in LeagueFunctions
    /\ pc = "league_loop"
    /\ season_no <= Len(seasons)
    /\ seasons[season_no].failure # "none"
    /\ total_matches_found' = total_matches_found
    /\ season_no' = Len(seasons) + 1
    /\ UNCHANGED <<pc, LeagueInputs, all_matches, seasons_processed,
                   total_played_matches, total_advanced_stats, total_failed,
                   team_answers, processed_matches,
                   matches_to_fetch_advanced, futures, calls, consumed,
                   writes, output>>

\* the season raises inside the try block (lines 316-331, 1624-1636) and
\* the handler (lines 452-454, 1796-1799) goes on to the next season
LeagueSeasonFails ==
    /\ fn \in LeagueFunctions
    /\ pc = "league_loop"
    /\ season_no <= Len(seasons)
    /\ seasons[season_no].failure # "none"
    /\ total_matches_found' = total_matches_found +
                                  Len(seasons[season_no].matches)
    /\ season_no' = season_no + 1
    /\ UNCHANGED <<pc, LeagueInputs, all_matches, seasons_processed,
                   total_played_matches, total_advanced_stats, total_failed,
                   team_answers, processed_matches,
                   matches_to_fetch_advanced, futures, calls, consumed,
                   writes, output>>

\* lines 316-356 and 1624-1664: the match list of the season, the filter,
\* the tasks, and in download_league_all_seasons the extension of
\* all_matches
LeagueSeasonPrepare ==
    /\ fn \in LeagueFunctions
    /\ pc = "league_loop"
    /\ season_no <= Len(seasons)
    /\ seasons[season_no].failure = "none"
    /\ LET season == seasons[season_no]
           raw == parse_matches(season.matches, TRUE)
           pm == IF fn = "download_league_all_seasons"
                 THEN [i \in 1..Len(raw) |->
                          WithSeasonId(raw[i], season.season_id)]
                 ELSE raw
           tasks == IF ~include_advanced THEN <<>>
                    ELSE IF fn = "download_league_all_seasons"
                    THEN AllSeasonsTasks(pm, 0, all_matches)
                    ELSE SeasonTasks(pm, 0)
       IN  /\ total_matches_found' = total_matches_found + Len(season.matches)
           /\ total_played_matches' = total_played_matches + Len(pm)
           /\ processed_matches' = pm
           /\ all_matches' = IF fn = "download_league_all_seasons"
                             THEN all_matches \o pm ELSE all_matches
           /\ matches_to_fetch_advanced' = tasks
           /\ futures' = [t \in 1..Len(tasks) |->
                            [state |-> "pending", outcome |-> NoOutcome,
                             result |-> NoResult]]
           /\ calls' = [t \in 1..Len(tasks) |-> 0]
           /\ consumed' = [t \in 1..Len(tasks) |-> 0]
           /\ pc' = IF include_advanced /\ tasks # <<>>
                    THEN "pool" ELSE "season_end"
    /\ UNCHANGED <<LeagueInputs, season_no, seasons_processed,
                   total_advanced_stats, total_failed, team_answers, writes,
                   output>>

\* one iteration of the as_completed loop, lines 398-436 and 1706-1740
LeagueCollect(t) ==
    /\ fn \in LeagueFunctions
    /\ pc = "pool"
    /\ futures[t].state = "finished"
    /\ LET res == futures[t].result
       IN  /\ IF fn = "download_league_all_seasons"
              THEN /\ all_matches' = MergeMatches(all_matches, res)
                   /\ processed_matches' = processed_matches
              ELSE /\ processed_matches' = MergeMatches(processed_matches, res)
                   /\ all_matches' = all_matches
           /\ total_advanced_stats' = CountAdvanced(res, total_advanced_stats)
           /\ total_failed' = CountFailed(res, total_failed)
    /\ futures' = [futures EXCEPT ![t].state = "consumed"]
    /\ consumed' = [consumed EXCEPT ![t] = @ + 1]
    /\ pc' = IF \A u \in Tasks \ {t} : futures[u].state = "consumed"
             THEN "season_end" ELSE "pool"
    /\ UNCHANGED <<LeagueInputs, season_no, seasons_processed,
                   total_matches_found, total_played_matches, team_answers,
                   matches_to_fetch_advanced, calls, writes, output>>

InitSingle ==
    /\ pc = "start"
    /\ catalog \in SmallCatalogs
    /\ include_advanced \in BOOLEAN
    /\ max_workers \in 1..MaxWorkers
    /\ total_matches = 0
    /\ processed_matches = <<>>
    /\ matches_to_fetch_advanced = <<>>
    /\ futures = <<>>
    /\ matches_with_advanced = 0
    /\ matches_failed = 0
    /\ calls = <<>>
    /\ consumed = <<>>
    /\ writes = 0
    /\ output = <<>>
    /\ fn \in SingleSeasonFunctions
    /\ teams_with_details = <<>>
    /\ LaterIdle

\* one of the three functions runs; the pool and the collecting loop are the
\* same code in each
NextSingle ==
    \/ fn = "download_matches_with_boxscores" /\ GetMatchesRaises
    \/ fn = "download_matches_with_boxscores" /\ Prepare
    \/ fn = "download_matches_with_boxscores" /\ Save
    \/ SeasonPrologueStops
    \/ SeasonGetMatchesRaises
    \/ SeasonPrepare
    \/ SeasonSave
    \/ \E t \in Tasks : WorkerStart(t)
    \/ \E t \in Tasks : \E o \in Outcomes : WorkerFinish(t, o)
    \/ \E t \in Tasks : Collect(t)

SpecSingle == InitSingle /\ [][NextSingle]_vars

\* the arguments download_league_comprehensive names in its get_team call
\* (lines 1772-1776)
LeagueTeamArguments == {"team_id", "competition_id", "category_id"}

\* the end of the try block of one season: lines 441-449 append the season
\* summary; lines 1749-1794 store the matches, look up every team of the
\* season and append the season record
LeagueSeasonEnd ==
    /\ fn \in LeagueFunctions
    /\ pc = "season_end"
    /\ LET season == seasons[season_no]
       IN  IF fn = "download_league_all_seasons"
           THEN /\ seasons_processed' =
                       Append(seasons_processed,
                              [season_id |-> season.season_id,
                               season_name |-> season.season_name,
                               competition_id |-> season.competition_id,
                               total_matches |-> Len(season.matches),
                               played_matches |-> Len(processed_matches)])
           ELSE /\ seasons_processed' =
                       Append(seasons_processed,
                              [season_id |-> season.season_id,
                               season_name |-> season.season_name,
                               competition_id |-> season.competition_id,
                               matches |-> processed_matches,
                               teams |-> TeamLoop(
                                   extract_teams_from_matches(
                                       processed_matches),
                                   LeagueTeamArguments, team_answers)])
    /\ season_no' = season_no + 1
    /\ pc' = "league_loop"
    /\ UNCHANGED <<LeagueInputs, all_matches, total_matches_found,
                   total_played_matches, total_advanced_stats, total_failed,
                   team_answers, processed_matches,
                   matches_to_fetch_advanced, futures, calls, consumed,
                   writes, output>>

\* after the loop, lines 456-477 and 1801-1821: the metadata and the write
LeagueSave ==
    /\ fn \in LeagueFunctions
    /\ pc = "league_loop"
    /\ season_no > Len(seasons)
    /\ output' = <<[total_seasons |-> Len(seasons),
                    seasons_processed |-> Len(seasons_processed),
                    total_matches_found |-> total_matches_found,
                    total_played_matches_saved |-> total_played_matches,
                    matches_with_advanced_stats |-> total_advanced_stats,
                    matches_failed |-> total_failed,
                    include_advanced_stats |-> include_advanced,
                    seasons |-> seasons_processed,
                    matches |-> all_matches]>>
    /\ writes' = writes + 1
    /\ pc' = "done"
    /\ UNCHANGED <<LeagueInputs, season_no, all_matches, seasons_processed,
                   total_matches_found, total_played_matches,
                   total_advanced_stats, total_failed, team_answers,
                   processed_matches, matches_to_fetch_advanced, futures,
                   calls, consumed>>

\* the state before a league function runs on the season list of the
\* category, the upstream source answering the team lookups as in answers
LeagueStart(functions, advanced, answers) ==
    /\ fn \in functions
    /\ seasons \in UNION {SeasonLists(n, MaxLeagueMatches) :
                               n \in 0..MaxSeasons}
    /\ team_answers \in IF fn = "download_league_comprehensive"
                        THEN answers ELSE {<<>>}
    /\ pc = "start"
    /\ catalog = <<>>
    /\ include_advanced \in advanced
    /\ max_workers \in 1..MaxWorkers
    /\ total_matches = 0
    /\ processed_matches = <<>>
    /\ matches_to_fetch_advanced = <<>>
    /\ futures = <<>>
    /\ matches_with_advanced = 0
    /\ matches_failed = 0
    /\ calls = <<>>
    /\ consumed = <<>>
    /\ writes = 0
    /\ output = <<>>
    /\ teams_with_details = <<>>
    /\ TeamsIdle /\ CliIdle /\ BulkIdle /\ ApiIdle
    /\ season_no = 0
    /\ all_matches = <<>>
    /\ seasons_processed = <<>>
    /\ total_matches_found = 0
    /\ total_played_matches = 0
    /\ total_advanced_stats = 0
    /\ total_failed = 0

\* both league functions, every team lookup answered with a team document
InitLeague ==
    LeagueStart(LeagueFunctions, BOOLEAN,
                {[team_id \in {"T1", "T2"} |-> "team"]})

NextLeague ==
    \/ LeaguePrologueStops
    \/ LeagueBegin
    \/ LeagueSeasonFails
    \/ LeagueSeasonPrepare
    \/ \E t \in Tasks : fn \in LeagueFunctions /\ WorkerStart(t)
    \/ \E t \in Tasks : \E o \in LeagueOutcomes :
           fn \in LeagueFunctions /\ WorkerFinish(t, o)
    \/ \E t \in Tasks : LeagueCollect(t)
    \/ LeagueSeasonEnd
    \/ LeagueSave

\* download_league_comprehensive without advanced statistics, the upstream
\* source answering the team lookups in every way
InitTeamLookups ==
    LeagueStart({"download_league_comprehensive"}, {FALSE},
                [{"T1", "T2"} -> TeamAnswers])

NextTeamLookups ==
    \/ LeaguePrologueStops
    \/ LeagueBegin
    \/ LeagueSeasonFails
    \/ LeagueSeasonPrepare
    \/ LeagueSeasonEnd
    \/ LeagueSave

SpecTeamLookups == InitTeamLookups /\ [][NextTeamLookups]_vars

\* every download function of the package
InitDownloads == InitSingle \/ InitLeague

NextDownloads ==
    \/ fn \notin LeagueFunctions /\ NextSingle
    \/ NextLeague

SpecDownloads == InitDownloads /\ [][NextDownloads]_vars

\* ------------- BasketFiParser.extract_teams_from_matches on its own
MaxTeamMatches == 2      \* longest match list handed to the function

\* what one side of a parsed match can carry as team id and club name
SideKinds ==
    { [id |-> "T1",    name |-> "Club A"],
      [id |-> "T1",    name |-> "Club B"],
      [id |-> "T2",    name |-> "Club A"],
      [id |-> "",      name |-> "Club A"],
      [id |-> NoneVal, name |-> "Club B"],
      [id |-> "T2",    name |-> ""],
      [id |-> "T3",    name |-> NoneVal] }

\* the parsed matches the function can be handed
TeamMatches ==
    { [home_team_id |-> h.id, home_team |-> h.name,
       away_team_id |-> a.id, away_team |-> a.name] :
         h \in SideKinds, a \in SideKinds }

InitTeams ==
    /\ pc = "teams_start"
    /\ \E n \in 0..MaxTeamMatches :
           processed_matches \in [1..n -> TeamMatches]
    /\ catalog = <<>>
    /\ include_advanced = FALSE
    /\ max_workers = 1
    /\ total_matches = 0
    /\ matches_to_fetch_advanced = <<>>
    /\ futures = <<>>
    /\ matches_with_advanced = 0
    /\ matches_failed = 0
    /\ calls = <<>>
    /\ consumed = <<>>
    /\ writes = 0
    /\ output = <<>>
    /\ fn = "extract_teams_from_matches"
    /\ teams_with_details = <<>>
    /\ teams_dict = <<>>
    /\ CliIdle /\ LeagueIdle /\ BulkIdle /\ ApiIdle

ExtractTeams ==
    /\ pc = "teams_start"
    /\ teams_dict' = extract_teams_from_matches(processed_matches)
    /\ pc' = "teams_extracted"
    /\ UNCHANGED <<catalog, include_advanced, max_workers, total_matches,
                   processed_matches, matches_to_fetch_advanced, futures,
                   matches_with_advanced, matches_failed, calls, consumed,
                   writes, output, fn, teams_with_details,
                   cli_vars, league_vars, bulk_vars, api_vars>>

NextTeams == ExtractTeams

SpecTeams == InitTeams /\ [][NextTeams]_vars

\* ------------------------------------------------------------- main
\* the command lines argparse accepts: the action is one of its choices,
\* --season-id has a default but can be given empty, the others are None
\* when they are not given
CommandLines ==
    [action : {"season-comprehensive", "team-season", "league-comprehensive"},
     season_id : {"huki2526", ""},
     category_id : {NoneVal, "4"},
     team_id : {NoneVal, "19281"},
     output : {NoneVal, "out.json"},
     output_dir : {NoneVal, "out"},
     adv_players : BOOLEAN]

\* how a download function called by main can be left: it returns, or an
\* exception leaves it (the match list or team request fails, the category
\* document lacks a key, the output file cannot be opened)
DownloadExits ==
    { [exc |-> "none",            status_code |-> 0,   message |-> NoneVal],
      [exc |-> "HTTPError",       status_code |-> 500, message |-> raise_for_status_message(500)],
      [exc |-> "ConnectionError", status_code |-> 0,   message |-> "Connection refused"],
      [exc |-> "KeyError",        status_code |-> 0,   message |-> "'season_id'"],
      [exc |-> "PermissionError", status_code |-> 0,   message |-> "Permission denied"] }

InitMain ==
    /\ pc = "main_start"
    /\ args \in CommandLines
    /\ printed = <<>>
    /\ exit_code = NoneVal
    /\ action_exit = NoOutcome
    /\ fn = "main"
    /\ PipelineIdle
    /\ TeamsIdle /\ LeagueIdle /\ BulkIdle /\ ApiIdle

\* the error line main prints for a missing option
RequiredLine(option, action) ==
    "Error: " \o option \o " is required for " \o action \o " action"

\* lines 1961-2045 up to the call: the default category, the checks of the
\* options of the action, the generated output name (the lookup of the
\* season name swallows its own failure and only yields a display name)
MainPrepare ==
    /\ pc = "main_start"
    /\ LET category_id == IF args.action # "team-season"
                             /\ ~Truthy(args.category_id)
                          THEN "4" ELSE args.category_id
           a == [args EXCEPT !.category_id = category_id]
           missing ==
               IF args.action = "season-comprehensive"
               THEN IF ~Truthy(args.season_id) THEN "--season-id" ELSE ""
               ELSE IF args.action = "team-season"
               THEN IF ~Truthy(args.team_id) THEN "--team-id"
                    ELSE IF ~Truthy(args.season_id) THEN "--season-id"
                    ELSE ""
               ELSE ""
       IN  IF missing # ""
           THEN /\ args' = a
                /\ printed' = Append(printed, RequiredLine(missing, args.action))
                /\ pc' = "main_returned"
                /\ exit_code' = 0
                /\ fn' = fn
           ELSE /\ args' =
                      IF args.action = "league-comprehensive"
                      THEN [a EXCEPT !.output_dir =
                               IF Truthy(@) THEN @ ELSE "league_4_timestamp"]
                      ELSE [a EXCEPT !.output =
                               IF Truthy(@) THEN @ ELSE "generated.json"]
                /\ printed' = printed
                /\ pc' = "main_call"
                /\ exit_code' = exit_code
                /\ fn' = IF args.action = "season-comprehensive"
                         THEN "download_season_comprehensive"
                         ELSE IF args.action = "team-season"
                         THEN "download_team_season"
                         ELSE "download_league_comprehensive"
    /\ UNCHANGED <<action_exit, pipeline, teams_vars, league_vars, bulk_vars,
                   api_vars>>

\* a main whose handler is for request errors only
MainCall_request_errors_only(exit) ==
    /\ pc = "main_call"
    /\ action_exit' = exit
    /\ IF exit.exc = "none"
       THEN /\ printed' = printed
            /\ pc' = "main_returned"
            /\ exit_code' = 0
       ELSE IF IsInstance(exit.exc, "RequestException")
       THEN /\ printed' = Append(printed, "Error: " \o exit.message)
            /\ pc' = "main_returned"
            /\ exit_code' = 0
       ELSE /\ printed' = printed
            /\ pc' = "main_escaped"
            /\ exit_code' = 1
    /\ UNCHANGED <<args, fn, pipeline, teams_vars, league_vars, bulk_vars,
                   api_vars>>

\* the call of the download function inside the try block, and the handler
\* "except Exception as e: print(f'Error: {e}')" (lines 1961, 2069-2070)
MainCall(exit) ==
    /\ pc = "main_call"
    /\ action_exit' = exit
    /\ IF exit.exc = "none"
       THEN /\ printed' = printed
            /\ pc' = "main_returned"
            /\ exit_code' = 0
       ELSE IF IsInstance(exit.exc, "Exception")
       THEN /\ printed' = Append(printed, "Error: " \o exit.message)
            /\ pc' = "main_returned"
            /\ exit_code' = 0
       ELSE /\ printed' = printed
            /\ pc' = "main_escaped"
            /\ exit_code' = 1
    /\ UNCHANGED <<args, fn, pipeline, teams_vars, league_vars, bulk_vars,
                   api_vars>>

NextMain ==
    \/ MainPrepare
    \/ \E exit \in DownloadExits : MainCall(exit)

SpecMain == InitMain /\ [][NextMain]_vars

\* -------------------------------------------- download_old_games_bulk
MaxGames == 3        \* longest list of game ids

GameIds == <<"G1", "G2", "G3", "G4", "G5">>

\* the lists of requested ids: distinct ids, or the first id asked for
\* again at the end
GameIdLists ==
    UNION { { [i \in 1..n |-> GameIds[i]],
              [i \in 1..n |-> IF i = n THEN GameIds[1] ELSE GameIds[i]] } :
            n \in 0..MaxGames }

\* what BasketHotelAPI.fetch_game_data does for one call: it returns the
\* parsed game, it returns a document without content, or a request raises
GameOutcomes ==
    { [exc |-> "none",      document |-> "game",  message |-> NoneVal],
      [exc |-> "none",      document |-> "empty", message |-> NoneVal],
      [exc |-> "HTTPError", document |-> "none",
       message |-> raise_for_status_message(500)] }

NoGameResult == [game_data |-> "none", fetched_id |-> NoneVal, error |-> NoneVal]

\* fetch_game, lines 685-691: the tuple (game_data, error_msg)
fetch_game(game_id, o) ==
    IF o.exc = "none"
    THEN [game_data |-> o.document, fetched_id |-> game_id, error |-> NoneVal]
    ELSE [game_data |-> "none", fetched_id |-> NoneVal, error |-> o.message]

Games == 1..Len(game_ids)

RunningGames == {t \in DOMAIN futures : futures[t].state = "running"}

InitBulk ==
    /\ pc = "bulk_start"
    /\ game_ids \in GameIdLists
    /\ output_file \in {NoneVal, "games.json"}
    /\ max_workers \in 1..MaxWorkers
    /\ games_data = <<>>
    /\ games_successful = 0
    /\ games_failed = 0
    /\ futures = <<>>
    /\ writes = 0
    /\ output = <<>>
    /\ fn = "download_old_games_bulk"
    /\ catalog = <<>>
    /\ include_advanced = FALSE
    /\ total_matches = 0
    /\ processed_matches = <<>>
    /\ matches_to_fetch_advanced = <<>>
    /\ matches_with_advanced = 0
    /\ matches_failed = 0
    /\ calls = <<>>
    /\ consumed = <<>>
    /\ teams_with_details = <<>>
    /\ TeamsIdle /\ CliIdle /\ LeagueIdle /\ ApiIdle

\* the variables download_old_games_bulk does not use
BulkOthers ==
    <<fn, catalog, include_advanced, total_matches, processed_matches,
      matches_to_fetch_advanced, matches_with_advanced, matches_failed,
      teams_with_details, teams_vars, cli_vars, league_vars, api_vars>>

\* lines 680-699: a future is submitted for every element of game_ids
BulkSubmit ==
    /\ pc = "bulk_start"
    /\ futures' = [t \in Games |->
                     [state |-> "pending", outcome |-> NoOutcome,
                      result |-> NoGameResult]]
    /\ calls' = [t \in Games |-> 0]
    /\ consumed' = [t \in Games |-> 0]
    /\ pc' = IF game_ids = <<>> THEN "bulk_save" ELSE "bulk_pool"
    /\ UNCHANGED <<game_ids, output_file, max_workers, games_data,
                   games_successful, games_failed, writes, output, BulkOthers>>

\* a free worker takes the oldest queued future and calls fetch_game_data
BulkWorkerStart(t) ==
    /\ pc = "bulk_pool"
    /\ futures[t].state = "pending"
    /\ \A u \in Games : u < t => futures[u].state # "pending"
    /\ Cardinality(RunningGames) < max_workers
    /\ futures' = [futures EXCEPT ![t].state = "running"]
    /\ calls' = [calls EXCEPT ![t] = @ + 1]
    /\ UNCHANGED <<pc, game_ids, output_file, max_workers, games_data,
                   games_successful, games_failed, consumed, writes, output,
                   BulkOthers>>

\* the call returns or raises; fetch_game returns its tuple
BulkWorkerFinish(t, o) ==
    /\ pc = "bulk_pool"
    /\ futures[t].state = "running"
    /\ futures' = [futures EXCEPT
                     ![t] = [state |-> "finished", outcome |-> o,
                             result |-> fetch_game(game_ids[t], o)]]
    /\ UNCHANGED <<pc, game_ids, output_file, max_workers, games_data,
                   games_successful, games_failed, calls, consumed, writes,
                   output, BulkOthers>>

\* a loop that leaves out what came back without content
BulkCollect_skip_empty(t) ==
    /\ pc = "bulk_pool"
    /\ futures[t].state = "finished"
    /\ LET game_id == game_ids[t]
           res == futures[t].result
       IN  IF res.game_data = "game"
           THEN /\ games_data' =
                       Append(games_data,
                              [fetched_id |-> res.fetched_id,
                               baskethotel_game_id |-> game_id])
                /\ games_successful' = games_successful + 1
                /\ games_failed' = games_failed
           ELSE /\ games_data' = games_data
                /\ games_successful' = games_successful
                /\ games_failed' = IF res.game_data = "empty"
                                   THEN games_failed ELSE games_failed + 1
    /\ futures' = [futures EXCEPT ![t].state = "consumed"]
    /\ consumed' = [consumed EXCEPT ![t] = @ + 1]
    /\ pc' = IF \A u \in Games \ {t} : futures[u].state = "consumed"
             THEN "bulk_save" ELSE "bulk_pool"
    /\ UNCHANGED <<game_ids, output_file, max_workers, calls, writes, output,
                   BulkOthers>>

\* one iteration of the as_completed loop, lines 707-720: game_id is the id
\* the future was submitted with; a document without content is falsy
BulkCollect(t) ==
    /\ pc = "bulk_pool"
    /\ futures[t].state = "finished"
    /\ LET game_id == game_ids[t]
           res == futures[t].result
       IN  IF res.game_data = "game"
           THEN /\ games_data' =
                       Append(games_data,
                              [fetched_id |-> res.fetched_id,
                               baskethotel_game_id |-> game_id])
                /\ games_successful' = games_successful + 1
                /\ games_failed' = games_failed
           ELSE /\ games_data' = games_data
                /\ games_successful' = games_successful
                /\ games_failed' = games_failed + 1
    /\ futures' = [futures EXCEPT ![t].state = "consumed"]
    /\ consumed' = [consumed EXCEPT ![t] = @ + 1]
    /\ pc' = IF \A u \in Games \ {t} : futures[u].state = "consumed"
             THEN "bulk_save" ELSE "bulk_pool"
    /\ UNCHANGED <<game_ids, output_file, max_workers, calls, writes, output,
                   BulkOthers>>

\* lines 722-739: the result is written when an output file was named
BulkSave ==
    /\ pc = "bulk_save"
    /\ IF Truthy(output_file)
       THEN /\ output' = <<[total_games_requested |-> Len(game_ids),
                            games_successful |-> games_successful,
                            games_failed |-> games_failed,
                            games |-> games_data]>>
            /\ writes' = writes + 1
       ELSE UNCHANGED <<output, writes>>
    /\ pc' = "bulk_done"
    /\ UNCHANGED <<game_ids, output_file, max_workers, games_data,
                   games_successful, games_failed, futures, calls, consumed,
                   BulkOthers>>

NextBulk ==
    \/ BulkSubmit
    \/ \E t \in Games : BulkWorkerStart(t)
    \/ \E t \in Games : \E o \in GameOutcomes : BulkWorkerFinish(t, o)
    \/ \E t \in Games : BulkCollect(t)
    \/ BulkSave

SpecBulk == InitBulk /\ [][NextBulk]_vars

\* ---------------------------------------------- BasketFiAPI.get_matches
\* the arguments of a call: each is None (the default), empty, or an id
GetMatchesArguments ==
    [competition_id : {NoneVal, "", "huki2526", "huki2425"},
     category_id : {NoneVal, "", "4", "13"},
     team_id : {NoneVal, "", "19281", "19282"}]

\* what the server does with a request: it answers 200 with the matches,
\* it answers 404, or the connection fails
Responses ==
    { [exc |-> "none",            status_code |-> 200, message |-> NoneVal],
      [exc |-> "HTTPError",       status_code |-> 404, message |-> raise_for_status_message(404)],
      [exc |-> "ConnectionError", status_code |-> 0,   message |-> "Connection refused"] }

\* the exception of lines 42-44
NoSelector ==
    [exc |-> "ValueError", status_code |-> 0,
     message |-> "Either team_id or both competition_id and category_id must be provided"]

\* a get_matches that sends every identifier it was given
get_matches_params_all_given(competition_id, category_id, team_id) ==
    LET season == IF Truthy(competition_id) /\ Truthy(category_id)
                  THEN {<<"competition_id", competition_id>>,
                        <<"category_id", category_id>>}
                  ELSE {}
    IN  IF Truthy(team_id) THEN {<<"team_id", team_id>>} \cup season
        ELSE season

\* lines 34-44: the query parameters; the empty set stands for the branch
\* that raises
get_matches_params(competition_id, category_id, team_id) ==
    IF Truthy(team_id)
    THEN {<<"team_id", team_id>>}
    ELSE IF Truthy(competition_id) /\ Truthy(category_id)
    THEN {<<"competition_id", competition_id>>,
          <<"category_id", category_id>>}
    ELSE {}

InitApi ==
    /\ pc = "api_start"
    /\ api_args \in GetMatchesArguments
    /\ requests = <<>>
    /\ api_result = NoOutcome
    /\ fn = "get_matches"
    /\ PipelineIdle
    /\ TeamsIdle /\ CliIdle /\ LeagueIdle /\ BulkIdle

\* one call of get_matches, lines 33-56
GetMatches(response) ==
    /\ pc = "api_start"
    /\ LET params == get_matches_params(api_args.competition_id,
                                        api_args.category_id,
                                        api_args.team_id)
       IN  IF params = {}
           THEN /\ requests' = requests
                /\ api_result' = NoSelector
                /\ pc' = "api_raised"
           ELSE /\ requests' = Append(requests,
                                      [url |-> "getMatches", params |-> params])
                /\ api_result' = response
                /\ pc' = IF response.exc = "none"
                         THEN "api_returned" ELSE "api_raised"
    /\ UNCHANGED <<api_args, fn, pipeline, teams_vars, cli_vars, league_vars,
                   bulk_vars>>

NextApi == \E response \in Responses : GetMatches(response)

SpecApi == InitApi /\ [][NextApi]_vars

\* ================================================================ claims
Positions == 1..Len(processed_matches)

\* the position (1-based) of the match a task was built from
OwnPos(t) ==
    CHOOSE p \in Positions :
        processed_matches[p].match_external_id =
            matches_to_fetch_advanced[t].external_id

\* the error record the merge loop builds from a failed result
ErrorRecord(res) ==
    [error_type |-> IF Truthy(res.error_type) THEN res.error_type
                    ELSE "Unknown",
     error_message |-> res.error]

Merged(t) == futures[t].state = "consumed"

\* the fetch of task t is over and gave no document
Failed(t) ==
    /\ futures[t].state \in {"finished", "consumed"}
    /\ futures[t].result.boxscore = {}

\* C1: once the result of a task has been merged, the box score (or the
\* error record) of the fetch made with the task's external id is attached
\* to the match that carries that external id.
C1_OutcomeOnOwnMatch ==
    \A t \in Tasks :
        Merged(t) =>
            LET res == futures[t].result
                m == processed_matches[OwnPos(t)]
            IN  /\ res.boxscore # {} => m.advanced_boxscore = res.boxscore
                /\ (res.boxscore = {} /\ Truthy(res.error)) =>
                       m.advanced_boxscore_error = {ErrorRecord(res)}

\* C2: no match record carries both an advanced_boxscore and an
\* advanced_boxscore_error.
C2_AttachmentExclusive ==
    \A p \in Positions :
        ~(/\ processed_matches[p].advanced_boxscore # {}
          /\ processed_matches[p].advanced_boxscore_error # {})

\* the ids of the catalog matches whose two scores are present and non-empty
PlayedIds ==
    LET played == SelectSeq(catalog,
                     LAMBDA m : /\ m.fs_A \notin {NoneVal, ""}
                                /\ m.fs_B \notin {NoneVal, ""})
    IN  [i \in 1..Len(played) |-> played[i].match_id]

IdsOf(pm) == [i \in 1..Len(pm) |-> pm[i].match_id]

\* C3: from the moment the list is built until it is written, and in the
\* written document, the list holds the played matches in catalog order.
C3_OrderStable ==
    /\ pc \in {"pool", "save", "done"} => IdsOf(processed_matches) = PlayedIds
    /\ pc = "done" => IdsOf(output[1].matches) = PlayedIds

\* C3 witness: a later task was merged before an earlier one
C3_Witness ==
    /\ pc = "pool"
    /\ Len(processed_matches) >= 2
    /\ \E t, u \in Tasks : t < u /\ Merged(u) /\ ~Merged(t)

\* C4: a raw match is in the output of parse_matches(only_played=True)
\* exactly when both fs_A and fs_B are neither None nor the empty string.
C4_Eligibility ==
    pc = "parsed_played" =>
        \A i \in 1..Len(catalog) :
            (\E j \in Positions :
                 processed_matches[j].match_id = catalog[i].match_id)
            <=> (/\ catalog[i].fs_A # NoneVal /\ catalog[i].fs_A # ""
                 /\ catalog[i].fs_B # NoneVal /\ catalog[i].fs_B # "")

\* C4 witness: one match kept, one dropped for a single missing score
C4_Witness ==
    /\ pc = "parsed_played"
    /\ Len(catalog) = 2
    /\ Len(processed_matches) = 1
    /\ \E i \in 1..2 : catalog[i].fs_A = "80" /\ catalog[i].fs_B = NoneVal

\* C5: at the end of a run the number of submitted tasks equals
\* matches_with_advanced + matches_failed.
C5_Conservation ==
    /\ pc \in {"save", "done"} =>
           Len(matches_to_fetch_advanced) =
               matches_with_advanced + matches_failed
    /\ pc = "done" =>
           Len(matches_to_fetch_advanced) =
               output[1].matches_with_advanced_stats + output[1].matches_failed

\* C5 witness: a finished run with a success, and a failure without message
C5_Witness ==
    /\ pc = "done"
    /\ max_workers = 2
    /\ matches_with_advanced >= 1
    /\ \E t \in Tasks : futures[t].result.error = ""

\* C6: in the written document matches_with_advanced_stats is the number of
\* matches carrying advanced_boxscore and matches_failed is the number of
\* matches carrying advanced_boxscore_error.  Stated for the runs in which
\* every failed fetch raised an exception with a message (as the transport
\* failure of the example does), so that each failure has an error record
\* to attach.
C6_CountersMatchAttachments ==
    (pc = "done" /\ \A t \in Tasks : Failed(t) => Truthy(futures[t].result.error)) =>
        LET ms == output[1].matches
        IN  /\ output[1].matches_with_advanced_stats =
                   Cardinality({p \in 1..Len(ms) :
                                    ms[p].advanced_boxscore # {}})
            /\ output[1].matches_failed =
                   Cardinality({p \in 1..Len(ms) :
                                    ms[p].advanced_boxscore_error # {}})

\* C7: distinct tasks record distinct positions of the match list.
C7_TaskPositionsDistinct ==
    \A t, u \in Tasks :
        t # u => matches_to_fetch_advanced[t].index #
                     matches_to_fetch_advanced[u].index

\* C8: a played match without a usable external id stays in the list, is
\* not the subject of any task and never carries an attachment.
C8_NoExternalIdUntouched ==
    pc \in {"pool", "save", "done"} =>
        \A i \in 1..Len(catalog) :
            (is_match_played(catalog[i])
             /\ ~Truthy(catalog[i].match_external_id)) =>
                /\ \A t \in Tasks :
                       matches_to_fetch_advanced[t].external_id #
                           catalog[i].match_external_id
                /\ \E p \in Positions :
                       /\ processed_matches[p].match_id = catalog[i].match_id
                       /\ processed_matches[p].advanced_boxscore = {}
                       /\ processed_matches[p].advanced_boxscore_error = {}

\* C9: get_match_boxscore is invoked at most once per task and exactly once
\* by the end, a task that has a result was fetched once, and the merge
\* loop takes each result exactly once.
C9_ExactlyOnce ==
    \A t \in Tasks :
        /\ calls[t] <= 1
        /\ consumed[t] <= 1
        /\ futures[t].state = "pending" => calls[t] = 0
        /\ futures[t].state \in {"running", "finished"} =>
               calls[t] = 1 /\ consumed[t] = 0
        /\ futures[t].state = "consumed" => calls[t] = 1 /\ consumed[t] = 1
        /\ pc \in {"save", "done"} => calls[t] = 1 /\ consumed[t] = 1

\* C9 witness: a finished run in which a fetch failed
C9_Witness ==
    /\ pc = "done"
    /\ Len(matches_to_fetch_advanced) >= 2
    /\ \E t \in Tasks : futures[t].result.error_type = "HTTP Error"

\* C10: an exception of a fetch does not leave the batch: the function is
\* left by an exception only before any task exists; while tasks are
\* outstanding the run can always go on; and at the end every task has been
\* fetched and merged with the outcome of its own fetch, the counters say
\* so, and the file has been written once.
C10_FailureContained ==
    /\ pc = "raised" => futures = <<>>
    /\ pc \in {"pool", "save"} => ENABLED Next
    /\ \A t \in Tasks :
           futures[t].state \in {"finished", "consumed"} =>
               /\ ~futures[t].result.raised
               /\ futures[t].result.boxscore \subseteq
                      {get_match_boxscore(
                           matches_to_fetch_advanced[t].external_id)}
    /\ pc = "done" =>
           /\ writes = 1
           /\ \A t \in Tasks : Merged(t) /\ calls[t] = 1
           /\ matches_with_advanced =
                  Cardinality({t \in Tasks : ~Failed(t)})
           /\ matches_failed = Cardinality({t \in Tasks : Failed(t)})

\* C10 witness: a written run in which one fetch raised an exception that
\* is neither an HTTPError nor a ValueError and another fetch succeeded
C10_Witness ==
    /\ pc = "done"
    /\ writes = 1
    /\ \E t, u \in Tasks :
           /\ futures[t].result.error_type = "ConnectionError"
           /\ futures[u].result.boxscore # {}

\* C11: with include_advanced=False no fetch task exists, get_match_boxscore
\* is never invoked, the success counter stays 0, no match carries an
\* advanced_boxscore, and the written metadata says so.
C11_NoFetchWithoutAdvanced ==
    ~include_advanced =>
        /\ matches_to_fetch_advanced = <<>>
        /\ futures = <<>>
        /\ \A t \in DOMAIN calls : calls[t] = 0
        /\ matches_with_advanced = 0
        /\ \A p \in Positions : processed_matches[p].advanced_boxscore = {}
        /\ pc = "done" =>
               /\ output[1].matches_with_advanced_stats = 0
               /\ output[1].include_advanced_stats = FALSE
               /\ \A p \in 1..Len(output[1].matches) :
                      output[1].matches[p].advanced_boxscore = {}

\* C11 witness: a written run without advanced stats over a catalog that
\* holds a played match with an external id
C11_Witness ==
    /\ pc = "done"
    /\ ~include_advanced
    /\ \E p \in Positions : Truthy(processed_matches[p].match_external_id)

\* the status codes of the HTTP failures
StatusCodes == {o.status_code : o \in {x \in RichOutcomes : x.status_code # 0}}

\* the text str carries the status code: as such, after "HTTP ", or in
\* front of the phrase raise_for_status appends
IncludesCode(str, code) ==
    \E pre \in {"", "HTTP "} :
        \E post \in {"", " Client Error", " Server Error"} :
            str = pre \o ToString(code) \o post

\* an error_type of the HTTP kind
HTTPKind(error_type) ==
    \/ error_type = "HTTP Error"
    \/ \E c \in StatusCodes : error_type = "HTTP " \o ToString(c)

\* the merge loop takes the result of task t in this step
Collects(t) == futures[t].state = "finished" /\ futures'[t].state = "consumed"

\* C12: when the merge loop takes the result of a fetch that failed with an
\* HTTPError whose response carries a status code, the error record it
\* attaches is of the HTTP kind and carries that status code (in error_type
\* or in error_message).
C12_HttpErrorRecord ==
    [][\A t \in Tasks :
          (/\ Collects(t)
           /\ futures[t].outcome.exc = "HTTPError"
           /\ futures[t].outcome.status_code # 0) =>
              LET code == futures[t].outcome.status_code
                  att == processed_matches'[futures[t].result.index + 1]
                             .advanced_boxscore_error
              IN  \E rec \in att :
                      /\ att = {rec}
                      /\ HTTPKind(rec.error_type)
                      /\ \/ IncludesCode(rec.error_type, code)
                         \/ IncludesCode(rec.error_message, code)]_vars

\* C12 witness: the results of a 404 and of a 500 failure have been merged
C12_Witness ==
    /\ \E t \in Tasks : Merged(t) /\ futures[t].outcome.status_code = 404
    /\ \E t \in Tasks : Merged(t) /\ futures[t].outcome.status_code = 500
    /\ \E p \in Positions :
           \E rec \in processed_matches[p].advanced_boxscore_error :
               rec.error_type = "HTTP Error"

\* the fetch of task t is over
Fetched(t) == futures[t].state \in {"finished", "consumed"}

\* C13: every failed fetch gets exactly one classification, decided in this
\* order: an HTTPError is of the HTTP kind; otherwise a ValueError is a
\* "Parse Error"; otherwise the classification is the name of the
\* exception's type.  A fetch that succeeded gets none.
C13_ClassificationTotal ==
    \A t \in Tasks :
        Fetched(t) =>
            LET exc == futures[t].outcome.exc
                res == futures[t].result
            IN  IF exc = "none"
                THEN res.error_type = NoneVal /\ res.boxscore # {}
                ELSE /\ ~res.raised
                     /\ res.boxscore = {}
                     /\ res.error_type # NoneVal
                     /\ IF "HTTPError" \in ExcBases(exc)
                        THEN HTTPKind(res.error_type)
                        ELSE IF "ValueError" \in ExcBases(exc)
                        THEN res.error_type = "Parse Error"
                        ELSE res.error_type = exc

\* C13 witness: a fetch that failed with a ValueError of another type and
\* a fetch that failed with an exception of neither kind are both over
C13_Witness ==
    /\ \E t \in Tasks : Fetched(t) /\ futures[t].outcome.exc = "InvalidURL"
    /\ \E t \in Tasks : Fetched(t) /\ futures[t].outcome.exc = "AttributeError"

\* the list a run gives when the results are merged in submission order,
\* as in a run with one worker whose results are taken as they come
RECURSIVE MergeInOrder(_, _)
MergeInOrder(pm, t) ==
    IF t > Len(matches_to_fetch_advanced) THEN pm
    ELSE MergeInOrder(MergeMatches(pm, futures[t].result), t + 1)

\* C14: the written document is determined by the catalog and by what the
\* detail source answers for each external id: whatever the worker count
\* and the order in which the fetches complete, the counts and the matches
\* list (attachments included) are those of the run that merges the same
\* results in submission order.
C14_SameOutputForAnyInterleaving ==
    pc = "done" =>
        /\ output[1].total_matches_in_season = Len(catalog)
        /\ output[1].matches_with_advanced_stats =
               Cardinality({t \in Tasks : futures[t].outcome.exc = "none"})
        /\ output[1].matches_failed =
               Cardinality({t \in Tasks : futures[t].outcome.exc # "none"})
        /\ output[1].matches =
               MergeInOrder(parse_matches(catalog, TRUE), 1)

\* C15: at every moment at most max_workers fetches are in flight, although
\* a future exists for every task from the moment the pool is entered.
C15_BoundedParallelism ==
    /\ Cardinality(Running) <= max_workers
    /\ pc = "pool" =>
           /\ Len(futures) = Len(matches_to_fetch_advanced)
           /\ Len(futures) >= 1

\* C15 witness: every worker is busy while a submitted task still waits
C15_Witness ==
    /\ pc = "pool"
    /\ Cardinality(Running) = max_workers
    /\ \E t \in Tasks : futures[t].state = "pending"

\* a worker thread takes a step for task t: it starts the call or ends it
WorkerStep(t) ==
    \/ futures[t].state = "pending" /\ futures'[t].state = "running"
    \/ futures[t].state = "running" /\ futures'[t].state # "running"

shared == <<processed_matches, matches_with_advanced, matches_failed>>

\* C16: while the pool is open a step of a worker leaves the list and the
\* two counters alone; they change only in a step in which the collecting
\* loop takes exactly one result, and after every step the counters add up
\* to the number of results taken, so no increment is lost.
C16_SingleWriter ==
    [][pc = "pool" =>
          /\ \A t \in Tasks : WorkerStep(t) => shared' = shared
          /\ shared' # shared =>
                 \E t \in Tasks :
                     /\ Collects(t)
                     /\ \A u \in Tasks \ {t} : futures'[u] = futures[u]
          /\ matches_with_advanced' + matches_failed' =
                 Cardinality({t \in Tasks : futures'[t].state = "consumed"})
      ]_vars

\* C16 witness: two workers are in their calls while the loop has already
\* merged a result
C16_Witness ==
    /\ pc = "pool"
    /\ Cardinality(Running) = 2
    /\ \E t \in Tasks : Merged(t)
    /\ matches_with_advanced + matches_failed = 1

\* the document on disk is the list and the counters as they are now
OutputIsCurrent ==
    /\ output[1].matches = processed_matches
    /\ output[1].matches_with_advanced_stats = matches_with_advanced
    /\ output[1].matches_failed = matches_failed

\* the write happened once, after every task was fetched and merged, and
\* nothing has changed since
WrittenOnceAtEnd ==
    /\ writes <= 1
    /\ writes = 0 <=> output = <<>>
    /\ writes = 1 =>
           /\ pc = "done"
           /\ \A t \in Tasks : Merged(t) /\ consumed[t] = 1
           /\ OutputIsCurrent

\* C17 as stated: every run that comes to its end has written the file
\* exactly once, after all tasks were merged, and changed nothing afterwards.
C17_WrittenOnceEveryRun ==
    /\ WrittenOnceAtEnd
    /\ pc \in {"done", "returned"} => writes = 1

\* C17 amended: a run whose catalog holds at least one match writes the file
\* exactly once, after all tasks were merged, and changes nothing afterwards;
\* a run whose catalog is empty returns without writing.
C17_WrittenOnceIfMatches ==
    /\ WrittenOnceAtEnd
    /\ pc = "done" => writes = 1 /\ catalog # <<>>
    /\ pc = "returned" => writes = 0 /\ catalog = <<>>

\* C17 witness: the file is written after a success and a failure were merged
C17_Witness ==
    /\ writes = 1
    /\ \E t, u \in Tasks :
           /\ Merged(t) /\ futures[t].outcome.exc = "none"
           /\ Merged(u) /\ futures[u].outcome.exc = "ValueError"

\* C18: when every call returns or raises and the threads keep running, a
\* run that has submitted its tasks comes to the state in which every task
\* is fetched and merged and the file is written, whatever fails.
C18_RunsToCompletion ==
    (pc = "pool") ~>
        (/\ pc = "done"
         /\ writes = 1
         /\ \A t \in Tasks : Merged(t))

\* C18 witness: the first of two tasks has failed while the second has not
\* been started, and the run is still in the pool
C18_Witness ==
    /\ pc = "pool"
    /\ max_workers = 1
    /\ Len(matches_to_fetch_advanced) = 2
    /\ futures[1].state = "finished" /\ futures[1].outcome.exc = "ConnectionError"
    /\ futures[2].state = "pending"

\* C19: in the written document played_matches_saved is the length of the
\* matches list and the number of catalog matches whose two scores are
\* present and non-empty, and total_matches_in_season is the number of raw
\* matches of the catalog.
C19_MetadataCounts ==
    pc = "done" =>
        /\ output[1].played_matches_saved = Len(output[1].matches)
        /\ output[1].played_matches_saved = Len(PlayedIds)
        /\ output[1].total_matches_in_season = Len(catalog)

\* C19 witness: three raw matches of which two are played
C19_Witness ==
    /\ pc = "done"
    /\ output[1].total_matches_in_season = 3
    /\ output[1].played_matches_saved = 2

\* C20: the step that merges a failed fetch (one whose exception has a
\* message) changes the list in one place only: the error record is added to
\* the match the failed task was built from; every other field of that
\* match and every other match stay as they were, and no match leaves.
C20_FailureOnlyAddsErrorRecord ==
    [][\A t \in Tasks :
          (/\ Collects(t)
           /\ futures[t].result.boxscore = {}
           /\ Truthy(futures[t].result.error)) =>
              processed_matches' =
                  [processed_matches EXCEPT
                      ![OwnPos(t)].advanced_boxscore_error =
                          {ErrorRecord(futures[t].result)}]]_vars

\* C21: in download_matches_with_boxscores, download_season_comprehensive
\* and download_team_season a failure of the match list fetch leaves the
\* function as an exception: the step ends the run in the raised state,
\* in which no task exists, get_match_boxscore was never invoked, nothing
\* was written, and no further step is possible.
C21_CatalogFailurePropagates ==
    /\ [](pc = "raised" =>
             /\ matches_to_fetch_advanced = <<>>
             /\ futures = <<>>
             /\ calls = <<>>
             /\ writes = 0
             /\ output = <<>>
             /\ ~ENABLED NextSingle)
    /\ [][(GetMatchesRaises \/ SeasonGetMatchesRaises) => pc' = "raised"]_vars

\* C21 witness: download_team_season was asked for advanced stats and the
\* match list fetch raised
C21_Witness ==
    /\ pc = "raised"
    /\ fn = "download_team_season"
    /\ include_advanced
    /\ catalog # <<>>

\* the status label of a raw match says what its scores say
LabelAgrees(m) == (m.status = "Played") <=> is_match_played(m)

\* the raw match a parsed match was made from
RawOf(match) ==
    CHOOSE m \in {catalog[i] : i \in 1..Len(catalog)} :
        m.match_id = match.match_id

SideAt(j) ==
    LET match == processed_matches[(j + 1) \div 2]
    IN  IF j % 2 = 1
        THEN [id |-> match.home_team_id, name |-> match.home_team]
        ELSE [id |-> match.away_team_id, name |-> match.away_team]

\* the sides that carry a non-empty id and a non-empty name
NamedSides ==
    {j \in 1..(2 * Len(processed_matches)) :
        /\ SideAt(j).id \notin {NoneVal, ""}
        /\ SideAt(j).name \notin {NoneVal, ""}}

\* the first such side of team id
FirstSide(id) ==
    CHOOSE j \in NamedSides :
        /\ SideAt(j).id = id
        /\ \A i \in NamedSides : SideAt(i).id = id => j <= i

\* C23: the result of extract_teams_from_matches holds exactly the team ids
\* that occur on a side with a non-empty id and a non-empty name, each once,
\* in the order of their first such occurrence and with the name seen there.
C23_TeamsOnceInFirstSeenOrder ==
    pc = "teams_extracted" =>
        /\ {teams_dict[k].team_id : k \in 1..Len(teams_dict)} =
               {SideAt(j).id : j \in NamedSides}
        /\ \A k, l \in 1..Len(teams_dict) :
               k # l => teams_dict[k].team_id # teams_dict[l].team_id
        /\ \A k, l \in 1..Len(teams_dict) :
               k < l => FirstSide(teams_dict[k].team_id) <
                            FirstSide(teams_dict[l].team_id)
        /\ \A k \in 1..Len(teams_dict) :
               teams_dict[k].team_name =
                   SideAt(FirstSide(teams_dict[k].team_id)).name

\* C23 witness: two matches in which a team occurs again under another
\* name and a side has no id; two teams are returned
C23_Witness ==
    /\ pc = "teams_extracted"
    /\ Len(processed_matches) = 2
    /\ Len(teams_dict) = 2
    /\ \E i, j \in NamedSides :
           i < j /\ SideAt(i).id = SideAt(j).id /\ SideAt(i).name # SideAt(j).name
    /\ \E j \in 1..4 : SideAt(j).id \in {NoneVal, ""}

\* C24: no exception of a download action leaves main: whatever the
\* action and however the download function is left, main comes to its end
\* with exit status 0, and when an exception left the download function
\* main has printed one line, "Error: " followed by the exception's text.
C24_MainCatchesEverything ==
    /\ pc # "main_escaped"
    /\ pc = "main_call" => ENABLED NextMain
    /\ pc = "main_returned" =>
           /\ exit_code = 0
           /\ action_exit.exc \notin {"none", "<pending>"} =>
                  printed = <<"Error: " \o action_exit.message>>

\* C24 witness: league-comprehensive was left by a KeyError and main has
\* printed its line and returned
C24_Witness ==
    /\ pc = "main_returned"
    /\ args.action = "league-comprehensive"
    /\ action_exit.exc = "KeyError"
    /\ printed = <<"Error: 'season_id'">>
    /\ exit_code = 0

\* the futures whose result the loop has taken
TakenGames == {t \in DOMAIN futures : futures[t].state = "consumed"}

\* the taken futures of game id g that came back with a game
TakenWithGame(g) ==
    {t \in TakenGames : game_ids[t] = g /\ futures[t].result.game_data = "game"}

\* C27: in download_old_games_bulk every request is accounted for exactly
\* once, whatever the completion order and the worker count: the games list
\* holds, for every id, one entry per taken request of that id that came
\* back with a game, each entry tagged with the id it was fetched with; every
\* other taken request counts as failed; and at the end games_successful +
\* games_failed is the number of requested ids and the games list has
\* games_successful entries, in the written document too.
C27_EveryGameAccountedOnce ==
    fn = "download_old_games_bulk" =>
        /\ \A t \in DOMAIN futures : calls[t] <= 1 /\ consumed[t] <= 1
        /\ \A g \in {game_ids[t] : t \in Games} :
               Cardinality({k \in 1..Len(games_data) :
                               games_data[k].baskethotel_game_id = g}) =
                   Cardinality(TakenWithGame(g))
        /\ \A k \in 1..Len(games_data) :
               games_data[k].baskethotel_game_id = games_data[k].fetched_id
        /\ games_successful = Len(games_data)
        /\ games_failed =
               Cardinality({t \in TakenGames :
                               futures[t].result.game_data # "game"})
        /\ pc \in {"bulk_save", "bulk_done"} =>
               /\ TakenGames = Games
               /\ games_successful + games_failed = Len(game_ids)
        /\ (pc = "bulk_done" /\ Truthy(output_file)) =>
               /\ writes = 1
               /\ output[1].games_successful + output[1].games_failed =
                      output[1].total_games_requested
               /\ output[1].total_games_requested = Len(game_ids)
               /\ Len(output[1].games) = output[1].games_successful

\* C27 witness: three requests, the first id asked for twice, finished out
\* of submission order with a game, an empty document and a failure
C27_Witness ==
    /\ pc = "bulk_done"
    /\ Len(game_ids) = 3
    /\ game_ids[3] = game_ids[1]
    /\ games_successful = 2
    /\ games_failed = 1
    /\ games_data[1].baskethotel_game_id = game_ids[2]
    /\ \E t \in Games : futures[t].result.game_data = "empty"
    /\ writes = 1

\* C30: get_matches sends a request exactly when team_id is given or
\* competition_id and category_id are both given (given: a non-empty
\* value); otherwise it raises ValueError and no request was made.  With
\* team_id given the only query parameter is team_id, whatever else was
\* passed; otherwise the parameters are competition_id and category_id.
C30_RequestIffSelector ==
    pc \in {"api_returned", "api_raised"} =>
        LET team == Truthy(api_args.team_id)
            season == Truthy(api_args.competition_id)
                      /\ Truthy(api_args.category_id)
        IN  /\ Len(requests) = (IF team \/ season THEN 1 ELSE 0)
            /\ ~(team \/ season) =>
                   pc = "api_raised" /\ api_result.exc = "ValueError"
            /\ team => requests[1].params = {<<"team_id", api_args.team_id>>}
            /\ (~team /\ season) =>
                   requests[1].params =
                       {<<"competition_id", api_args.competition_id>>,
                        <<"category_id", api_args.category_id>>}

\* C30 witness: a call with all three identifiers has been answered
C30_Witness ==
    /\ pc = "api_returned"
    /\ Truthy(api_args.team_id)
    /\ Truthy(api_args.competition_id)
    /\ Truthy(api_args.category_id)
    /\ Len(requests) = 1

\* the functions whose tasks record the enumerate position of the match
IdxFunctions ==
    {"download_season_comprehensive", "download_team_season",
     "download_league_comprehensive"}

\* C25: in download_season_comprehensive, download_team_season and
\* download_league_comprehensive with include_advanced, every task records
\* the position of its own match in the processed list; once its result is
\* merged, the box score or the error record of the fetch is on the match
\* with the task's external id; and no match of the list or of a stored
\* season carries both a box score and an error record.
C25_TaskRecordsOwnPosition ==
    (fn \in IdxFunctions /\ include_advanced) =>
        /\ \A t \in Tasks :
               /\ matches_to_fetch_advanced[t].index + 1 = OwnPos(t)
               /\ Merged(t) =>
                      LET res == futures[t].result
                          m == processed_matches[OwnPos(t)]
                      IN  /\ res.boxscore # {} =>
                                 m.advanced_boxscore = res.boxscore
                          /\ (res.boxscore = {} /\ Truthy(res.error)) =>
                                 m.advanced_boxscore_error = {ErrorRecord(res)}
                          /\ res.boxscore # {} =>
                                 res.boxscore = {get_match_boxscore(
                                                    m.match_external_id)}
        /\ \A p \in Positions :
               ~(/\ processed_matches[p].advanced_boxscore # {}
                 /\ processed_matches[p].advanced_boxscore_error # {})
        /\ fn = "download_league_comprehensive" =>
               \A s \in 1..Len(seasons_processed) :
                   \A p \in 1..Len(seasons_processed[s].matches) :
                       LET m == seasons_processed[s].matches[p]
                       IN  /\ ~(/\ m.advanced_boxscore # {}
                                /\ m.advanced_boxscore_error # {})
                           /\ m.advanced_boxscore # {} =>
                                  m.advanced_boxscore =
                                      {get_match_boxscore(m.match_external_id)}

\* download_league_comprehensive has merged the two results of a season,
\* the first a failure and the second a box score, each on its own match
C25_Witness ==
    /\ fn = "download_league_comprehensive"
    /\ include_advanced
    /\ Len(matches_to_fetch_advanced) = 2
    /\ \A t \in Tasks : Merged(t)
    /\ futures[1].result.boxscore = {}
    /\ futures[2].result.boxscore # {}
    /\ processed_matches[1].advanced_boxscore_error # {}
    /\ processed_matches[2].advanced_boxscore # {}


\* C26: in download_league_all_seasons the position a task records is the
\* position, in the accumulated list, of the match of the current season the
\* task was built from, whatever the earlier seasons did; a merged result is
\* on that match.
C26_OffsetDenotesOwnMatch ==
    (fn = "download_league_all_seasons" /\ pc \in {"pool", "season_end"}) =>
        \A t \in Tasks :
            LET task == matches_to_fetch_advanced[t]
                res == futures[t].result
            IN  /\ task.index + 1 \in 1..Len(all_matches)
                /\ all_matches[task.index + 1].match_external_id =
                       task.external_id
                /\ all_matches[task.index + 1].season_id =
                       seasons[season_no].season_id
                /\ task.index + 1 = Len(all_matches) -
                       Len(processed_matches) + OwnPos(t)
                /\ (Merged(t) /\ res.boxscore # {}) =>
                       all_matches[task.index + 1].advanced_boxscore =
                           {get_match_boxscore(task.external_id)}
                /\ (Merged(t) /\ res.boxscore = {} /\ Truthy(res.error)) =>
                       all_matches[task.index + 1].advanced_boxscore_error =
                           {ErrorRecord(res)}

\* the second season follows a season that left matches in the accumulated
\* list; a box score of the second season is merged behind them
C26_Witness ==
    /\ fn = "download_league_all_seasons"
    /\ pc = "season_end"
    /\ season_no = 2
    /\ Len(all_matches) > Len(processed_matches)
    /\ \E t \in Tasks :
           /\ Merged(t)
           /\ futures[t].result.boxscore # {}
           /\ matches_to_fetch_advanced[t].index >=
                  Len(all_matches) - Len(processed_matches)
           /\ all_matches[matches_to_fetch_advanced[t].index + 1]
                  .advanced_boxscore # {}

\* the seasons of the category that raise no exception, in category order
CompletedSeasons == SelectSeq(seasons, LAMBDA s : s.failure = "none")

C29_TeamErrorOnlyOnUpstreamFailure ==
    fn = "download_league_comprehensive" =>
        \A s \in 1..Len(seasons_processed) :
            \A k \in 1..Len(seasons_processed[s].teams) :
                LET entry == seasons_processed[s].teams[k]
                    answer == team_answers[entry.team_id]
                IN  /\ answer = "team" =>
                           /\ entry.detail = {"players", "officials"}
                           /\ entry.error = {}
                    /\ entry.error # {} => answer = "fails"


====
